---- MODULE Spec2Model ----
(***************************************************************************)
(* The CPU arithmetization of core/src/cpu/air/mod.rs as a state machine.  *)
(*                                                                         *)
(* A prover lays out the CPU table one row at a time.  CpuChip::eval is    *)
(* evaluated on every window (local, next) of the table: on the window of  *)
(* the first row with the first-row selector, on every window but the last *)
(* with the transition selector, and on the last row (whose `next` wraps   *)
(* round to row 0) with the last-row selector.  A table is accepted when   *)
(* every window satisfies every constraint.  The Opcode-Specific table is  *)
(* laid out row by row as well; CpuOpcodeSpecificChip::eval reads the      *)
(* local row only.  The two tables meet on the instruction-dispatch        *)
(* interaction, which balances when every tuple is sent and received with  *)
(* the same total multiplicity.                                            *)
(*                                                                         *)
(* Column values are elements of the BabyBear field.  A constraint         *)
(* builder.when(c).assert_eq(a, b) is the polynomial identity              *)
(* c * (a - b) = 0, which, a field having no zero divisors, holds exactly  *)
(* when c = 0 or a = b.                                                    *)
(***************************************************************************)
EXTENDS Integers, Sequences, FiniteSets, TLC

VARIABLES
    focus,      \* the group of columns in which the prover deviates from honest execution
    pv,         \* the public values, fixed before constraint evaluation begins
    cpu,        \* the rows of the CPU table laid out so far
    cpuClosed,  \* the CPU table is complete: its last window has been evaluated
    ops,        \* the rows of the Opcode-Specific table laid out so far
    rt,         \* the runtime that executes the program: shard, clk, memory, local events
    shards,     \* per finished shard: its record and its two Memory Local tables
    done,       \* the execution has ended and its last shard is finished
    tampered,   \* the prover has changed a column of a row of a Memory Local table
    rec,        \* the execution record handed to the two MemoryLocalChips
    trace,      \* per chip: <<the trace generate_trace returned>>, <<>> before the call
    incl,       \* per chip: <<the boolean included returned>>, <<>> before the call
    stack,      \* the frames of the calls of the SDK in progress, the innermost last
    outcome,    \* what the call of prove_with_options came to, "none" while it runs
    dl          \* the call of download_file: its position in the code and its locals

cpuVars == <<focus, pv, cpu, cpuClosed, ops>>

memVars == <<rt, shards, done, tampered>>

recVars == <<rec, trace, incl>>

sdkVars == <<stack, outcome>>

dlVars == <<dl>>

vars == <<focus, pv, cpu, cpuClosed, ops, rt, shards, done, tampered, rec, trace, incl,
          stack, outcome, dl>>

---------------------------------------------------------------------------
(* Bounds of the exploration.                                              *)

MaxRows == 3

MaxOpRows == 1

\* The memory accesses of an execution.
MaxAccesses == 3

\* The shards of an execution.
MaxShards == 2

\* The events of the local_memory_access list of an execution record.
MaxEvents == 2

\* The keccak permute events of an execution record.
MaxKeccakEvents == 2

\* The local memory events of a keccak permute event.
MaxKeccakAccesses == 1

\* The greatest timeout of a ProofOpts.
MaxTimeout == 2

\* The frames the stack of the thread holds before it overflows.
MaxDepth == 5

\* The greatest content length a server announces.
MaxTotal == 3

\* The greatest length of a chunk of the body.
MaxChunk == 2

\* The chunks a body yields at most.
MaxChunks == 3

---------------------------------------------------------------------------
(* The field.                                                              *)

\* The BabyBear modulus 2^31 - 2^27 + 1, the "31 bit field" of eval_shard_clk.
P == 15 * 134217728 + 1

\* a + b in the field, for a, b in 0 .. P-1, without leaving 32-bit integers.
FAdd(a, b) == IF a >= P - b THEN a - (P - b) ELSE a + b

\* a - b in the field.
FSub(a, b) == IF a >= b THEN a - b ELSE a + (P - b)

RECURSIVE FMul(_, _)
\* a * b in the field, by doubling.
FMul(a, b) ==
    IF b = 0 THEN 0
    ELSE LET h == FMul(a, b \div 2)
             d == FAdd(h, h)
         IN  IF b % 2 = 1 THEN FAdd(d, a) ELSE d

\* Word::reduce: the field element b0 + b1 * 2^8 + b2 * 2^16 + b3 * 2^24.
Reduce(w) ==
    FAdd(FAdd(w[1], FMul(w[2], 256)),
         FAdd(FMul(w[3], 65536), FMul(w[4], 16777216)))

\* Word::from(u32): the four bytes of a value, least significant first.
ToWord(v) == <<v % 256, (v \div 256) % 256, (v \div 65536) % 256, v \div 16777216>>

\* The value of a word of bytes as an integer.
WordValue(w) == w[1] + 256 * w[2] + 65536 * w[3] + 16777216 * w[4]

---------------------------------------------------------------------------
(* The selector block.                                                     *)

MemorySelectors ==
    {"is_lb", "is_lbu", "is_lh", "is_lhu", "is_lw", "is_sb", "is_sh", "is_sw"}

BranchSelectors ==
    {"is_beq", "is_bne", "is_blt", "is_bge", "is_bltu", "is_bgeu"}

SelectorNames ==
    {"imm_b", "imm_c", "is_alu", "is_ecall", "is_jalr", "is_jal", "is_auipc",
     "is_unimpl"} \cup MemorySelectors \cup BranchSelectors

\* OpcodeSelectorCols::is_memory_instruction: the sum of the load and store selectors.
is_memory_instruction(sel) ==
    FAdd(FAdd(FAdd(sel["is_lb"], sel["is_lbu"]), FAdd(sel["is_lh"], sel["is_lhu"])),
         FAdd(FAdd(sel["is_lw"], sel["is_sb"]), FAdd(sel["is_sh"], sel["is_sw"])))

\* OpcodeSelectorCols::is_branch_instruction: the sum of the branch selectors.
is_branch_instruction(sel) ==
    FAdd(FAdd(FAdd(sel["is_beq"], sel["is_bne"]), FAdd(sel["is_blt"], sel["is_bge"])),
         FAdd(sel["is_bltu"], sel["is_bgeu"]))

is_alu_instruction(sel) == sel["is_alu"]

is_ecall_instruction(sel) == sel["is_ecall"]

\* The selector block of an instruction of class c with the given immediate flags.
Sel(c, immb, immc) ==
    [n \in SelectorNames |->
        IF n = c THEN 1
        ELSE IF n = "imm_b" THEN immb
        ELSE IF n = "imm_c" THEN immc
        ELSE 0]

\* The selector block of a padding row: all zero but the two immediate flags.
SelPad == Sel("none", 1, 1)

SelAlu == Sel("is_alu", 0, 0)

SelEcall == Sel("is_ecall", 0, 0)

SelUnimpl == Sel("is_unimpl", 0, 0)

SelJal == Sel("is_jal", 0, 1)

SelAuipc == Sel("is_auipc", 1, 1)

\* A selector block with every column zero, the immediate flags included.
SelZero == Sel("none", 0, 0)

\* A selector block that classifies its row twice, as ALU and as JAL.
SelAluJal == [SelAlu EXCEPT !["is_jal"] = 1]

---------------------------------------------------------------------------
(* CpuChip::eval and its helpers.  `first` and `last` are the first-row    *)
(* and last-row selectors of the window; when_transition() holds on every  *)
(* window but the last.                                                    *)

\* get_num_extra_ecall_cycles without the ECALL gate.
get_num_extra_ecall_cycles_ungated(local) ==
    local.op_a_prev[3]

\* get_num_extra_ecall_cycles with element 0 of the syscall code, the syscall id.
get_num_extra_ecall_cycles_element_0(local) ==
    FMul(local.op_a_prev[1], is_ecall_instruction(local.selectors))

\* CpuChip::get_num_extra_ecall_cycles: element 2 of the syscall code, the value
\* op_a held before the instruction, gated by the ECALL selector.
get_num_extra_ecall_cycles(local) ==
    FMul(local.op_a_prev[3], is_ecall_instruction(local.selectors))

\* The multiplicity of the U16Range byte lookup of eval_shard_clk on the shard.
shard_range_check_mult(local) == local.is_real

\* The clk range check handed 1 - is_real.
clk_range_check_mult_not_real(local) == FSub(1, local.is_real)

\* The multiplicity eval_shard_clk hands to eval_range_check_24bits for the clk.
clk_range_check_mult(local) == local.is_real

\* The constraint of eval_range_check_24bits: when do_check is not zero, the value is
\* limb_16 + limb_8 * 2^16 in the field.  Its byte lookups are interactions.
eval_range_check_24bits(value, limb_16, limb_8, do_check) ==
    do_check # 0 => value = FAdd(limb_16, FMul(limb_8, 65536))

\* eval_shard_clk with an increment of 4 on every row, the extra cycles left out.
eval_shard_clk_increment_4(local, next, first, last) ==
    /\ (~last /\ next.is_real # 0) => local.shard = next.shard
    /\ first => local.clk = 0
    /\ (~last /\ next.is_real # 0) => FAdd(local.clk, 4) = next.clk
    /\ eval_range_check_24bits(local.clk, local.clk_16bit_limb, local.clk_8bit_limb,
                               clk_range_check_mult(local))

\* CpuChip::eval_shard_clk, its constraints (its byte lookups are interactions).
eval_shard_clk(local, next, first, last) ==
    /\ (~last /\ next.is_real # 0) => local.shard = next.shard
    /\ first => local.clk = 0
    /\ (~last /\ next.is_real # 0) =>
           FAdd(FAdd(local.clk, 4), get_num_extra_ecall_cycles(local)) = next.clk
    /\ eval_range_check_24bits(local.clk, local.clk_16bit_limb, local.clk_8bit_limb,
                               clk_range_check_mult(local))

\* eval_public_values without the shard constraint.
eval_public_values_no_shard(local, next, pvs, first, last) ==
    /\ first => pvs.start_pc = local.pc
    /\ (~last /\ FSub(local.is_real, next.is_real) # 0) => pvs.next_pc = local.next_pc
    /\ (last /\ local.is_real # 0) => pvs.next_pc = local.next_pc

\* eval_public_values without the case of a last real row that is the last row.
eval_public_values_no_last_row(local, next, pvs, first, last) ==
    /\ local.is_real # 0 => pvs.execution_shard = local.shard
    /\ first => pvs.start_pc = local.pc
    /\ (~last /\ FSub(local.is_real, next.is_real) # 0) => pvs.next_pc = local.next_pc

\* eval_public_values with the start pc bound on the last row instead of the first.
eval_public_values_start_on_last(local, next, pvs, first, last) ==
    /\ local.is_real # 0 => pvs.execution_shard = local.shard
    /\ last => pvs.start_pc = local.pc
    /\ (~last /\ FSub(local.is_real, next.is_real) # 0) => pvs.next_pc = local.next_pc
    /\ (last /\ local.is_real # 0) => pvs.next_pc = local.next_pc

\* CpuChip::eval_public_values.
eval_public_values(local, next, pvs, first, last) ==
    /\ local.is_real # 0 => pvs.execution_shard = local.shard
    /\ first => pvs.start_pc = local.pc
    /\ (~last /\ FSub(local.is_real, next.is_real) # 0) => pvs.next_pc = local.next_pc
    /\ (last /\ local.is_real # 0) => pvs.next_pc = local.next_pc

\* eval_is_real without the first-row constraint.
eval_is_real_no_first(local, next, first, last) ==
    /\ local.is_real \in {0, 1}
    /\ (~last /\ FSub(1, local.is_real) # 0) => next.is_real = 0

\* CpuChip::eval_is_real.
eval_is_real(local, next, first, last) ==
    /\ local.is_real \in {0, 1}
    /\ first => local.is_real = 1
    /\ (~last /\ FSub(1, local.is_real) # 0) => next.is_real = 0

\* The pc chaining constraint under when_not(next.is_real) instead of
\* when(next.is_real).
eval_pc_chain_when_not(local, next, last) ==
    (~last /\ FSub(1, next.is_real) # 0) => local.next_pc = next.pc

\* The pc chaining constraint of CpuChip::eval.
eval_pc_chain(local, next, last) ==
    (~last /\ next.is_real # 0) => local.next_pc = next.pc

\* The halt constraints of CpuChip::eval: no real row follows a halting or an
\* unimplemented row.
eval_halt_next(local, next, last) ==
    (~last /\ FAdd(local.is_halt, local.selectors["is_unimpl"]) # 0) => next.is_real = 0

\* The exit code constraint on the low byte of op_b instead of its reduced value.
eval_exit_code_low_byte(local, pvs) ==
    local.is_halt # 0 => local.op_b[1] = pvs.exit_code

\* The exit code constraint of CpuChip::eval.
eval_exit_code(local, pvs) ==
    local.is_halt # 0 => Reduce(local.op_b) = pvs.exit_code

\* The loop over the selector block without the case of imm_b and imm_c.
eval_padding_selectors_no_imm(local) ==
    \A n \in SelectorNames \ {"imm_b", "imm_c"} :
        FSub(1, local.is_real) # 0 => local.selectors[n] = 0

\* The loop over the selector block under when(is_real) instead of
\* when_not(is_real).
eval_padding_selectors_when_real(local) ==
    \A n \in SelectorNames :
        local.is_real # 0 =>
            IF n \in {"imm_b", "imm_c"}
            THEN local.selectors[n] = 1
            ELSE local.selectors[n] = 0

\* The loop over the selector block that closes CpuChip::eval: on a row that is not
\* real every selector is zero, but imm_b and imm_c, which are one.
eval_padding_selectors(local) ==
    \A n \in SelectorNames :
        FSub(1, local.is_real) # 0 =>
            IF n \in {"imm_b", "imm_c"}
            THEN local.selectors[n] = 1
            ELSE local.selectors[n] = 0

\* CpuChip::eval on one window: every constraint it asserts.
CpuEval(local, next, pvs, first, last) ==
    /\ eval_pc_chain(local, next, last)
    /\ eval_halt_next(local, next, last)
    /\ eval_exit_code(local, pvs)
    /\ eval_shard_clk(local, next, first, last)
    /\ eval_public_values(local, next, pvs, first, last)
    /\ eval_is_real(local, next, first, last)
    /\ eval_padding_selectors(local)

\* The multiplicity of the send_instruction interaction of CpuChip::eval.
send_instruction_mult(local) ==
    FAdd(FAdd(FAdd(FAdd(is_branch_instruction(local.selectors),
                        FAdd(local.selectors["is_jal"], local.selectors["is_jalr"])),
                   is_memory_instruction(local.selectors)),
              local.selectors["is_auipc"]),
         local.selectors["is_ecall"])

\* The values of the send_instruction interaction of CpuChip::eval.
send_instruction_values(local) ==
    <<local.clk, local.shard, local.channel, local.pc, local.next_pc, local.selectors,
      local.op_a_prev, local.op_a, local.op_b, local.op_c, local.instruction.op_a_0,
      local.is_halt>>

\* The send_program interaction with the ALU selector for its multiplicity.
send_program_mult_alu(local) == is_alu_instruction(local.selectors)

\* The send_program interaction with 1 - is_real for its multiplicity.
send_program_mult_not_real(local) == FSub(1, local.is_real)

\* The multiplicity of the send_program interaction of CpuChip::eval.
send_program_mult(local) == local.is_real

\* The values of the send_program interaction of CpuChip::eval.
send_program_values(local) ==
    <<local.pc, local.instruction, local.selectors, local.shard>>

\* The send_alu interaction with is_real for its multiplicity.
send_alu_mult_real(local) == local.is_real

\* The multiplicity of the send_alu interaction of CpuChip::eval.
send_alu_mult(local) == is_alu_instruction(local.selectors)

\* The values of the send_alu interaction of CpuChip::eval.
send_alu_values(local) ==
    <<local.instruction.opcode, local.op_a, local.op_b, local.op_c, local.shard,
      local.channel, local.nonce>>

\* The byte lookups of eval_shard_clk on a row, as (values, multiplicity): the
\* U16Range lookup of the shard, and the U16Range lookup of the 16-bit limb and the
\* U8Range lookup of the 8-bit limb that eval_range_check_24bits sends.
send_byte_interactions(local) ==
    <<[values |-> <<"U16Range", local.shard, 0, 0, local.shard, local.channel>>,
       mult |-> shard_range_check_mult(local)],
      [values |-> <<"U16Range", local.clk_16bit_limb, 0, 0, local.shard, local.channel>>,
       mult |-> clk_range_check_mult(local)],
      [values |-> <<"U8Range", 0, 0, local.clk_8bit_limb, local.shard, local.channel>>,
       mult |-> clk_range_check_mult(local)]>>

---------------------------------------------------------------------------
(* CpuOpcodeSpecificChip::eval.                                            *)

\* The syscall id of HALT, element 0 of its syscall code.
HaltSyscallId == 0

\* CpuOpcodeSpecificChip::is_halt_syscall: the row is an ECALL whose syscall id,
\* element 0 of the value op_a held before the instruction, is HALT.
is_halt_syscall(local) ==
    FMul(IF local.op_a_prev_val[1] = HaltSyscallId THEN 1 ELSE 0,
         is_ecall_instruction(local.selectors))

\* The values of the receive_instruction interaction; its multiplicity is is_real.
receive_instruction_values(local) ==
    <<local.clk, local.shard, local.channel, local.pc, local.next_pc, local.selectors,
      local.op_a_prev_val, local.op_a_val, local.op_b_val, local.op_c_val, local.op_a_0,
      local.is_halt>>

\* BabyBearWordRangeChecker::range_check: when its multiplicity is not zero, the
\* word, as an integer, is below the modulus of the field.
BabyBearWordRangeChecker_range_check(value, is_real) ==
    is_real # 0 => WordValue(value) < P

\* eval_auipc without the range check of the pc word.
eval_auipc_no_range_check(local) ==
    local.selectors["is_auipc"] # 0 => Reduce(local.auipc_pc) = local.pc

\* CpuOpcodeSpecificChip::eval_auipc, its constraints: on an AUIPC row the word form
\* of the pc reduces to the pc and is range-checked.
eval_auipc(local) ==
    /\ local.selectors["is_auipc"] # 0 => Reduce(local.auipc_pc) = local.pc
    /\ BabyBearWordRangeChecker_range_check(local.auipc_pc, local.selectors["is_auipc"])

\* The multiplicity of the send_alu interaction of eval_auipc.
auipc_send_alu_mult(local) == local.selectors["is_auipc"]

\* The values of the send_alu interaction of eval_auipc.
auipc_send_alu_values(local) ==
    <<"ADD", local.op_a_val, local.auipc_pc, local.op_b_val, local.shard, local.channel,
      local.auipc_nonce>>

\* 1 - (is_branch + is_jal + is_jalr + is_halt) of CpuOpcodeSpecificChip::eval.
is_sequence_instr(local) ==
    FSub(1, FAdd(FAdd(FAdd(is_branch_instruction(local.selectors),
                           local.selectors["is_jal"]),
                      local.selectors["is_jalr"]),
                 local.is_halt))

\* The constraints CpuOpcodeSpecificChip::eval asserts itself: those of eval_auipc,
\* the is_halt column is the HALT syscall flag, and a real row that is no branch,
\* jump or halt has next_pc = pc + 4.
OpcodeSpecificEval(local) ==
    /\ eval_auipc(local)
    /\ is_halt_syscall(local) = local.is_halt
    /\ (local.is_real # 0 /\ is_sequence_instr(local) # 0) =>
           FAdd(local.pc, 4) = local.next_pc

---------------------------------------------------------------------------
(* The instruction-dispatch lookup over the two tables.                    *)

RECURSIVE SentTotal(_, _, _)
\* The total multiplicity with which rows 1 .. n of the CPU table send tuple t.
SentTotal(rows, n, t) ==
    IF n = 0 THEN 0
    ELSE FAdd(SentTotal(rows, n - 1, t),
              IF send_instruction_values(rows[n]) = t
              THEN send_instruction_mult(rows[n]) ELSE 0)

RECURSIVE ReceivedTotal(_, _, _)
\* The total multiplicity with which rows 1 .. n of the Opcode-Specific table
\* receive tuple t.
ReceivedTotal(rows, n, t) ==
    IF n = 0 THEN 0
    ELSE FAdd(ReceivedTotal(rows, n - 1, t),
              IF receive_instruction_values(rows[n]) = t THEN rows[n].is_real ELSE 0)

\* The instruction-dispatch interactions of the two tables cancel: every tuple is
\* sent and received with the same total multiplicity.
DispatchBalanced(cpuRows, opRows) ==
    \A t \in {send_instruction_values(cpuRows[i]) : i \in 1..Len(cpuRows)}
            \cup {receive_instruction_values(opRows[j]) : j \in 1..Len(opRows)} :
        SentTotal(cpuRows, Len(cpuRows), t) = ReceivedTotal(opRows, Len(opRows), t)

---------------------------------------------------------------------------
(* The program lookup.  The program table is preprocessed: it holds one    *)
(* row per instruction of the program, with the selectors trace generation *)
(* derives from the instruction, and receives each row with a multiplicity *)
(* column the prover fills in.                                             *)

\* The row of the program table at pc: the program is a run of ADD instructions
\* with an ECALL at address 8.
ProgramEntry(pc) ==
    IF pc = 8
    THEN [instruction |-> [opcode |-> "ECALL", op_a_0 |-> 0], selectors |-> SelEcall]
    ELSE [instruction |-> [opcode |-> "ADD", op_a_0 |-> 0], selectors |-> SelAlu]

RECURSIVE ProgramSentTotal(_, _, _)
\* The total multiplicity with which rows 1 .. n of the CPU table send the
\* program-fetch tuple t.
ProgramSentTotal(rows, n, t) ==
    IF n = 0 THEN 0
    ELSE FAdd(ProgramSentTotal(rows, n - 1, t),
              IF send_program_values(rows[n]) = t THEN send_program_mult(rows[n]) ELSE 0)

\* The program lookup closes: the multiplicity column of the program table can
\* match the total of every tuple the CPU table sends, which it can exactly when
\* every tuple sent with a non-zero total is a row of the program table.
ProgramBalanced(cpuRows) ==
    \A i \in 1..Len(cpuRows) :
        LET t == send_program_values(cpuRows[i])
        IN  ProgramSentTotal(cpuRows, Len(cpuRows), t) # 0 =>
                /\ t[2] = ProgramEntry(t[1]).instruction
                /\ t[3] = ProgramEntry(t[1]).selectors

---------------------------------------------------------------------------
(* The ALU lookup.  The ALU tables receive (opcode, a, b, c, shard,        *)
(* channel, nonce) on rows whose a is the result of the operation on b and *)
(* c.                                                                      *)

\* The 32-bit sum of two words, byte by byte with carry.
AddWords(b, c) ==
    LET s1 == b[1] + c[1]
        s2 == b[2] + c[2] + (s1 \div 256)
        s3 == b[3] + c[3] + (s2 \div 256)
        s4 == b[4] + c[4] + (s3 \div 256)
    IN  <<s1 % 256, s2 % 256, s3 % 256, s4 % 256>>

\* The ALU tables hold a row that receives tuple t: for an ADD, a = b + c.
AluReceives(t) == t[1] = "ADD" => t[2] = AddWords(t[3], t[4])

RECURSIVE AluSentTotal(_, _, _)
\* The total multiplicity with which rows 1 .. n of the CPU table send the ALU
\* tuple t.
AluSentTotal(rows, n, t) ==
    IF n = 0 THEN 0
    ELSE FAdd(AluSentTotal(rows, n - 1, t),
              IF send_alu_values(rows[n]) = t THEN send_alu_mult(rows[n]) ELSE 0)

RECURSIVE OpAluSentTotal(_, _, _)
\* The total multiplicity with which rows 1 .. n of the Opcode-Specific table send
\* the ALU tuple t.
OpAluSentTotal(rows, n, t) ==
    IF n = 0 THEN 0
    ELSE FAdd(OpAluSentTotal(rows, n - 1, t),
              IF auipc_send_alu_values(rows[n]) = t THEN auipc_send_alu_mult(rows[n])
              ELSE 0)

\* The ALU lookup of the Opcode-Specific table closes: every tuple the table sends
\* with a non-zero total is received by a row of an ALU table.
OpAluBalanced(opRows) ==
    \A j \in 1..Len(opRows) :
        LET t == auipc_send_alu_values(opRows[j])
        IN  OpAluSentTotal(opRows, Len(opRows), t) # 0 => AluReceives(t)

\* The ALU lookup closes: every tuple the CPU table sends with a non-zero total is
\* received by a row of an ALU table.
AluBalanced(cpuRows) ==
    \A i \in 1..Len(cpuRows) :
        LET t == send_alu_values(cpuRows[i])
        IN  AluSentTotal(cpuRows, Len(cpuRows), t) # 0 => AluReceives(t)

---------------------------------------------------------------------------
(* The byte lookup.  The byte table receives (opcode, a, b, c, shard,      *)
(* channel); it holds a U16Range row for every a below 2^16 and a U8Range  *)
(* row for every pair of bytes b and c.                                    *)

\* The byte table holds a row that receives tuple t.
ByteReceives(t) ==
    CASE t[1] = "U16Range" -> t[2] \in 0..65535 /\ t[3] = 0 /\ t[4] = 0
      [] t[1] = "U8Range" -> t[2] = 0 /\ t[3] \in 0..255 /\ t[4] \in 0..255
      [] OTHER -> FALSE

RECURSIVE ByteSentTotal(_, _, _)
\* The total multiplicity with which rows 1 .. n of the CPU table send the byte
\* tuple t.
ByteSentTotal(rows, n, t) ==
    IF n = 0 THEN 0
    ELSE LET is == send_byte_interactions(rows[n])
         IN  FAdd(ByteSentTotal(rows, n - 1, t),
                  FAdd(FAdd(IF is[1].values = t THEN is[1].mult ELSE 0,
                            IF is[2].values = t THEN is[2].mult ELSE 0),
                       IF is[3].values = t THEN is[3].mult ELSE 0))

\* The byte lookup closes: every tuple the CPU table sends with a non-zero total is
\* received by a row of the byte table.
ByteBalanced(cpuRows) ==
    \A i \in 1..Len(cpuRows) :
        \A n \in 1..3 :
            LET t == send_byte_interactions(cpuRows[i])[n].values
            IN  ByteSentTotal(cpuRows, Len(cpuRows), t) # 0 => ByteReceives(t)

---------------------------------------------------------------------------
(* The rows a prover may lay out.  An honest row continues the execution   *)
(* of the row before it; the prover deviates from it in the columns of the *)
(* focus it chose, over every combination of the values listed.            *)

\* Syscall codes (id, table flag, extra cycles, 0): HALT, WRITE and SHA_EXTEND, whose
\* precompile takes 48 extra cycles.
SyscallHalt == <<0, 0, 0, 0>>

SyscallWrite == <<2, 0, 0, 0>>

SyscallShaExtend == <<5, 1, 48, 0>>

\* A syscall code with the greatest extra-cycle count a byte holds.
SyscallMaxCycles == <<5, 1, 255, 0>>

\* Values of op_a's previous value whose element 2 is no byte: with 2^24 - 5 the clk
\* after the first row is 2^24 - 1, with p - 4 it is the clk of the row itself.
SyscallLongCycles == <<5, 1, 16777211, 0>>

SyscallWrapCycles == <<5, 1, P - 4, 0>>

\* The limbs trace generation writes for a clk: its low 16 bits and the 8 bits above.
Limb16(clk) == clk % 65536

Limb8(clk) == (clk \div 65536) % 256

WithLimbs(r) ==
    [r EXCEPT !.clk_16bit_limb = Limb16(r.clk), !.clk_8bit_limb = Limb8(r.clk)]

Focuses == {"real", "clk", "shard", "pc", "halt", "exit", "seq", "fetch", "alu",
            "dispatch", "range", "auipc"}

\* The public values of a proof: the declared next_pc ranges over the addresses a
\* table of up to MaxRows rows can end at; the declared exit code is the value of the
\* honest op_b, or ranges over the values of the op_b words of the "exit" focus.
PublicValuesOf(f) ==
    {[execution_shard |-> sh, start_pc |-> sp, next_pc |-> FAdd(sp, 4 * k), exit_code |-> ec] :
        sh \in (IF f = "shard" THEN {1, 2} ELSE IF f = "range" THEN {1, 65536} ELSE {1}),
        sp \in (IF f = "pc" THEN {0, 4} ELSE {0}),
        k \in 1..MaxRows,
        ec \in (IF f = "exit" THEN {1, 257} ELSE {3})}

\* The row of an honest execution at the start of the table.
HonestFirst(pvs) ==
    [is_real |-> 1, shard |-> pvs.execution_shard, channel |-> 0, clk |-> 0,
     pc |-> pvs.start_pc, next_pc |-> FAdd(pvs.start_pc, 4), selectors |-> SelAlu,
     instruction |-> [opcode |-> "ADD", op_a_0 |-> 0],
     op_a_prev |-> SyscallWrite, op_a |-> <<7, 0, 0, 0>>, op_b |-> <<3, 0, 0, 0>>,
     op_c |-> <<4, 0, 0, 0>>, is_halt |-> 0, nonce |-> 0,
     clk_16bit_limb |-> 0, clk_8bit_limb |-> 0]

\* The row of an honest execution after row l.
HonestNext(l) ==
    WithLimbs([l EXCEPT !.is_real = 1,
                        !.clk = FAdd(FAdd(l.clk, 4), get_num_extra_ecall_cycles(l)),
                        !.pc = l.next_pc,
                        !.next_pc = FAdd(l.next_pc, 4),
                        !.selectors = SelAlu,
                        !.op_a_prev = SyscallWrite,
                        !.is_halt = 0])

\* The opcode of the instruction a selector block classifies.
OpcodeOf(sel) ==
    CASE sel["is_ecall"] = 1 -> "ECALL"
      [] sel["is_unimpl"] = 1 -> "UNIMP"
      [] sel["is_jal"] = 1 -> "JAL"
      [] sel["is_auipc"] = 1 -> "AUIPC"
      [] OTHER -> "ADD"

\* The deviations from the honest row b the prover may lay out under focus f.
Deviations(f, b) ==
    CASE f = "real" ->
           {[b EXCEPT !.is_real = r, !.selectors = s] :
               r \in {0, 1, 2}, s \in {SelAlu, SelPad}}
      [] f = "clk" ->
           {[b EXCEPT !.is_real = r, !.selectors = s, !.clk = c, !.op_a_prev = w] :
               r \in {0, 1}, s \in {SelAlu, SelEcall, SelPad},
               c \in {b.clk, FAdd(b.clk, 48), FSub(b.clk, 48)},
               w \in {SyscallWrite, SyscallShaExtend}}
      [] f = "shard" ->
           {[b EXCEPT !.is_real = r, !.selectors = s, !.shard = sh] :
               r \in {0, 1}, s \in {SelAlu, SelPad}, sh \in {1, 2}}
      [] f = "pc" ->
           {[b EXCEPT !.is_real = r, !.selectors = s, !.pc = p, !.next_pc = n] :
               r \in {0, 1}, s \in {SelAlu, SelPad},
               p \in {0, b.pc, FAdd(b.pc, 4)},
               n \in {FAdd(b.pc, 4), FAdd(b.pc, 8)}}
      [] f = "halt" ->
           {[b EXCEPT !.is_real = r, !.selectors = s, !.is_halt = h, !.op_a_prev = w] :
               r \in {0, 1}, s \in {SelAlu, SelUnimpl, SelPad},
               h \in {0, 1, P - 1}, w \in {SyscallWrite}}
           \cup
           {[b EXCEPT !.is_real = r, !.selectors = SelEcall, !.is_halt = h, !.op_a_prev = w] :
               r \in {0, 1}, h \in {0, 1, P - 1}, w \in {SyscallHalt, SyscallWrite}}
      [] f = "exit" ->
           {[b EXCEPT !.is_real = r, !.selectors = s, !.is_halt = h, !.op_b = w,
                      !.op_a_prev = SyscallHalt] :
               r \in {0, 1}, s \in {SelEcall, SelPad}, h \in {0, 1},
               w \in {<<1, 0, 0, 0>>, <<1, 1, 0, 0>>}}
      [] f = "seq" ->
           {[b EXCEPT !.is_real = r, !.selectors = s, !.next_pc = n] :
               r \in {0, 1}, s \in {SelAlu, SelEcall, SelJal, SelPad},
               n \in {FAdd(b.pc, 4), FAdd(b.pc, 8)}}
      [] f = "fetch" ->
           LET e == ProgramEntry(b.pc)
           IN  {[b EXCEPT !.is_real = r, !.selectors = s, !.instruction = e.instruction] :
                   r \in {0, 1}, s \in {e.selectors, SelPad, SelZero, SelAluJal}}
               \cup
               {[b EXCEPT !.is_real = 1, !.selectors = e.selectors, !.instruction = ins] :
                   ins \in {[e.instruction EXCEPT !.opcode = "SUB"],
                            [e.instruction EXCEPT !.op_a_0 = 1]}}
      [] f = "dispatch" ->
           {[b EXCEPT !.is_real = r, !.selectors = s] :
               r \in {0, 1}, s \in {SelAlu, SelEcall, SelPad}}
      [] f = "alu" ->
           {[b EXCEPT !.is_real = r, !.selectors = s, !.op_a = a] :
               r \in {0, 1}, s \in {SelAlu, SelEcall, SelPad},
               a \in {<<7, 0, 0, 0>>, <<8, 0, 0, 0>>}}
      [] f = "auipc" ->
           {[b EXCEPT !.is_real = r, !.selectors = s,
                      !.op_a = AddWords(ToWord(b.pc), b.op_b)] :
               r \in {0, 1}, s \in {SelAuipc, SelAlu, SelPad}}
      [] f = "range" ->
           LET limbs == {<<Limb16(b.clk), Limb8(b.clk)>>,
                         <<Limb16(b.clk), b.clk \div 65536>>,
                         <<b.clk, 0>>}
           IN  {[b EXCEPT !.selectors = SelEcall, !.op_a_prev = w,
                          !.clk_16bit_limb = Limb16(b.clk),
                          !.clk_8bit_limb = Limb8(b.clk)] :
                   w \in {SyscallWrite, SyscallMaxCycles, SyscallLongCycles,
                          SyscallWrapCycles}}
               \cup
               {[b EXCEPT !.selectors = SelAlu,
                          !.clk_16bit_limb = l[1], !.clk_8bit_limb = l[2]] :
                   l \in limbs}
               \cup
               {[b EXCEPT !.is_real = 0, !.selectors = SelPad, !.shard = sh] :
                   sh \in {b.shard, 65536}}

\* The rows the prover may lay out in place of the honest row b: every deviation,
\* with the instruction its selectors classify; under the "fetch" focus the
\* instruction columns deviate on their own.
Candidates(f, b) ==
    IF f = "fetch" THEN Deviations(f, b)
    ELSE IF f = "range"
    THEN {[r EXCEPT !.instruction.opcode = OpcodeOf(r.selectors)] : r \in Deviations(f, b)}
    ELSE {WithLimbs([r EXCEPT !.instruction.opcode = OpcodeOf(r.selectors)]) :
             r \in Deviations(f, b)}

\* The Opcode-Specific row that corresponds to CPU row r.
HonestOp(r) ==
    [clk |-> r.clk, shard |-> r.shard, channel |-> r.channel, pc |-> r.pc,
     next_pc |-> r.next_pc, selectors |-> r.selectors, op_a_prev_val |-> r.op_a_prev,
     op_a_val |-> r.op_a, op_b_val |-> r.op_b, op_c_val |-> r.op_c,
     op_a_0 |-> r.instruction.op_a_0, is_halt |-> r.is_halt, is_real |-> 1,
     auipc_pc |-> ToWord(r.pc), auipc_nonce |-> 0]

\* The rows the prover may lay out in the Opcode-Specific table in place of the
\* honest row b.
OpCandidates(f, b) ==
    CASE f = "halt" ->
           {[b EXCEPT !.is_real = r, !.is_halt = h] : r \in {0, 1}, h \in {0, 1}}
      [] f = "seq" ->
           {[b EXCEPT !.is_real = r, !.next_pc = n] :
               r \in {0, 1}, n \in {b.next_pc, FAdd(b.pc, 4)}}
      [] f = "dispatch" ->
           {[b EXCEPT !.is_real = r] : r \in {0, 1, 2, P - 1}}
           \cup {[b EXCEPT !.op_b_val = <<9, 0, 0, 0>>]}
      [] f = "auipc" ->
           {[b EXCEPT !.is_real = r] : r \in {0, 1}}
           \cup {[b EXCEPT !.auipc_pc = w] : w \in {<<1, 1, 0, 0>>, ToWord(P + b.pc)}}
           \cup {[b EXCEPT !.op_a_val = <<8, 0, 0, 0>>]}
           \cup {[b EXCEPT !.auipc_pc = ToWord(P + b.pc),
                           !.op_a_val = AddWords(ToWord(P + b.pc), b.op_b_val)]}
           \cup {[b EXCEPT !.is_real = 0, !.selectors = SelAlu, !.auipc_pc = <<1, 1, 0, 0>>]}
      [] OTHER ->
           {[b EXCEPT !.is_real = r] : r \in {0, 1}}

---------------------------------------------------------------------------
(* The Memory Local tables of core/src/memory/local.rs.  The runtime       *)
(* executes the program shard by shard and records, per shard and address, *)
(* a MemoryLocalEvent: the record the address held before its first access *)
(* in the shard and the record of its last access in the shard.            *)
(* MemoryLocalChip::generate_trace turns the events of a shard into the    *)
(* Initialize and the Finalize table; MemoryLocalChip::eval is evaluated   *)
(* on every row of both.                                                   *)

\* The addresses the program accesses.
Addrs == <<100, 104>>

\* The record of an address no access has touched.
BootRecord == [shard |-> 0, clk |-> 0, value |-> 0]

\* The runtime before the first instruction.
RuntimeStart ==
    [shard |-> 0, clk |-> 0, accesses |-> 0,
     memory |-> [i \in 1..Len(Addrs) |-> BootRecord],
     local_memory_access |-> <<>>,
     cpu_events |-> <<>>]

\* The events of a record after an access to address Addrs[a] that leaves record m:
\* the first access of the shard to the address opens an event whose initial record
\* is the record the address held, a later one replaces the final record.
RecordLocalAccess(events, a, prev, m) ==
    IF \E i \in 1..Len(events) : events[i].addr = Addrs[a]
    THEN [i \in 1..Len(events) |->
             IF events[i].addr = Addrs[a]
             THEN [events[i] EXCEPT !.final_mem_access = m]
             ELSE events[i]]
    ELSE Append(events,
                [addr |-> Addrs[a], initial_mem_access |-> prev, final_mem_access |-> m])

RECURSIVE KeccakLocalMemEvents(_)
\* The local memory events of the keccak permute events of a record, in order.
KeccakLocalMemEvents(keccak_permute_events) ==
    IF keccak_permute_events = <<>> THEN <<>>
    ELSE Head(keccak_permute_events).local_mem_access
            \o KeccakLocalMemEvents(Tail(keccak_permute_events))

\* The two modes of the chip.
MemoryChipType == {"Initialize", "Finalize"}

\* ExecutionRecord::default(), as far as the chip reads it.
DefaultRecord == [local_memory_access |-> <<>>, keccak_permute_events |-> <<>>]

\* No call has returned yet.
NoCalls == [kind \in MemoryChipType |-> <<>>]

\* The least height of a padded trace.
MinTraceHeight == 2

RECURSIVE NextPowerOfTwo(_, _)
\* The least power of two that is at least n, from the power of two h up.
NextPowerOfTwo(n, h) == IF h >= n THEN h ELSE NextPowerOfTwo(n, 2 * h)

\* The all-zero row.
ZeroRow == [shard |-> 0, clk |-> 0, addr |-> 0, value |-> <<0, 0, 0, 0>>, is_real |-> 0]

\* pad_to_power_of_two: all-zero rows after the rows of the trace, up to a height
\* that is a power of two.
pad_to_power_of_two(rows) ==
    LET h == NextPowerOfTwo(Len(rows), MinTraceHeight)
    IN  [i \in 1..h |-> IF i <= Len(rows) THEN rows[i] ELSE ZeroRow]

\* generate_trace with the access of the other mode in each mode.
generate_trace_swapped(kind, input) ==
    LET events == input.local_memory_access
                      \o KeccakLocalMemEvents(input.keccak_permute_events)
        mem_access(e) == IF kind = "Initialize" THEN e.final_mem_access
                         ELSE e.initial_mem_access
    IN  pad_to_power_of_two(
            [i \in 1..Len(events) |->
                [shard |-> mem_access(events[i]).shard,
                 clk |-> mem_access(events[i]).clk,
                 addr |-> events[i].addr,
                 value |-> ToWord(mem_access(events[i]).value),
                 is_real |-> 1]])

\* generate_trace with the events of the keccak permute events chained before those
\* of the record.
generate_trace_keccak_first(kind, input) ==
    LET events == KeccakLocalMemEvents(input.keccak_permute_events)
                      \o input.local_memory_access
        mem_access(e) == IF kind = "Initialize" THEN e.initial_mem_access
                         ELSE e.final_mem_access
    IN  pad_to_power_of_two(
            [i \in 1..Len(events) |->
                [shard |-> mem_access(events[i]).shard,
                 clk |-> mem_access(events[i]).clk,
                 addr |-> events[i].addr,
                 value |-> ToWord(mem_access(events[i]).value),
                 is_real |-> 1]])

\* generate_trace without the events of the keccak permute events in Finalize mode.
generate_trace_finalize_local_only(kind, input) ==
    LET events == IF kind = "Initialize"
                  THEN input.local_memory_access
                          \o KeccakLocalMemEvents(input.keccak_permute_events)
                  ELSE input.local_memory_access
        mem_access(e) == IF kind = "Initialize" THEN e.initial_mem_access
                         ELSE e.final_mem_access
    IN  pad_to_power_of_two(
            [i \in 1..Len(events) |->
                [shard |-> mem_access(events[i]).shard,
                 clk |-> mem_access(events[i]).clk,
                 addr |-> events[i].addr,
                 value |-> ToWord(mem_access(events[i]).value),
                 is_real |-> 1]])

\* MemoryLocalChip::generate_trace: one row per local memory event of the record,
\* those of its keccak permute events after its own, with the initial access in
\* Initialize mode and the final access in Finalize mode, then the padding.
generate_trace(kind, input) ==
    LET events == input.local_memory_access
                      \o KeccakLocalMemEvents(input.keccak_permute_events)
        mem_access(e) == IF kind = "Initialize" THEN e.initial_mem_access
                         ELSE e.final_mem_access
    IN  pad_to_power_of_two(
            [i \in 1..Len(events) |->
                [shard |-> mem_access(events[i]).shard,
                 clk |-> mem_access(events[i]).clk,
                 addr |-> events[i].addr,
                 value |-> ToWord(mem_access(events[i]).value),
                 is_real |-> 1]])

\* included without the events of the keccak permute events.
included_local_only(kind, shard) ==
    shard.local_memory_access # <<>>

\* included with the keccak permute events themselves in place of their local
\* memory events.
included_keccak_events(kind, shard) ==
    shard.keccak_permute_events # <<>> \/ shard.local_memory_access # <<>>

\* MemoryLocalChip::included, of the chip of either mode: the record has a local
\* memory event of its own or one inside a keccak permute event.
included(kind, shard) ==
    LET keccak_local_mem_events == KeccakLocalMemEvents(shard.keccak_permute_events)
    IN  keccak_local_mem_events # <<>> \/ shard.local_memory_access # <<>>

\* The constraint of MemoryLocalChip::eval: is_real^3 = is_real^3.
MemoryLocalEval(local) ==
    FMul(FMul(local.is_real, local.is_real), local.is_real)
        = FMul(FMul(local.is_real, local.is_real), local.is_real)

\* The interactions of MemoryLocalChip::eval with the scopes of the two modes
\* exchanged.
MemoryLocalInteractions_scopes_swapped(kind, local) ==
    LET values == <<local.shard, local.clk, local.addr>> \o local.value
        send(scope) == [dir |-> "send", scope |-> scope, kind |-> "Memory",
                        values |-> values, mult |-> local.is_real]
        receive(scope) == [dir |-> "receive", scope |-> scope, kind |-> "Memory",
                           values |-> values, mult |-> local.is_real]
    IN  IF kind = "Initialize"
        THEN <<send("Local"), receive("Global")>>
        ELSE <<receive("Local"), send("Global")>>

\* The interactions of MemoryLocalChip::eval with a zero in place of the clk.
MemoryLocalInteractions_no_clk(kind, local) ==
    LET values == <<local.shard, 0, local.addr>> \o local.value
        send(scope) == [dir |-> "send", scope |-> scope, kind |-> "Memory",
                        values |-> values, mult |-> local.is_real]
        receive(scope) == [dir |-> "receive", scope |-> scope, kind |-> "Memory",
                           values |-> values, mult |-> local.is_real]
    IN  IF kind = "Initialize"
        THEN <<send("Global"), receive("Local")>>
        ELSE <<receive("Global"), send("Local")>>

\* The interactions of MemoryLocalChip::eval with the branch of Initialize mode taken
\* in both modes.
MemoryLocalInteractions_initialize_branch(kind, local) ==
    LET values == <<local.shard, local.clk, local.addr>> \o local.value
        send(scope) == [dir |-> "send", scope |-> scope, kind |-> "Memory",
                        values |-> values, mult |-> local.is_real]
        receive(scope) == [dir |-> "receive", scope |-> scope, kind |-> "Memory",
                           values |-> values, mult |-> local.is_real]
    IN  <<send("Global"), receive("Local")>>

\* The interactions of MemoryLocalChip::eval on a row, in the order it emits them.
MemoryLocalInteractions(kind, local) ==
    LET values == <<local.shard, local.clk, local.addr>> \o local.value
        send(scope) == [dir |-> "send", scope |-> scope, kind |-> "Memory",
                        values |-> values, mult |-> local.is_real]
        receive(scope) == [dir |-> "receive", scope |-> scope, kind |-> "Memory",
                           values |-> values, mult |-> local.is_real]
    IN  IF kind = "Initialize"
        THEN <<send("Global"), receive("Local")>>
        ELSE <<receive("Global"), send("Local")>>

RECURSIVE TableInteractions(_, _, _)
\* The interactions of rows 1 .. n of a table of the given mode.
TableInteractions(kind, rows, n) ==
    IF n = 0 THEN <<>>
    ELSE TableInteractions(kind, rows, n - 1) \o MemoryLocalInteractions(kind, rows[n])

RECURSIVE ShardsInteractions(_, _)
\* The interactions of the Memory Local tables of shards 1 .. n of the list.
ShardsInteractions(ss, n) ==
    IF n = 0 THEN <<>>
    ELSE ShardsInteractions(ss, n - 1)
            \o TableInteractions("Initialize", ss[n].init, Len(ss[n].init))
            \o TableInteractions("Finalize", ss[n].fin, Len(ss[n].fin))

\* The address has an event in a shard of the list.
Touched(ss, addr) ==
    \E k \in 1..Len(ss) :
        \E i \in 1..Len(ss[k].record.local_memory_access) :
            ss[k].record.local_memory_access[i].addr = addr

RECURSIVE GlobalMemoryInteractions(_, _, _)
\* The Global-scope interactions of the tables of the memory image, for addresses
\* 1 .. n: the record every touched address holds before the execution is received,
\* the record it holds after the execution is sent.
GlobalMemoryInteractions(ss, memory, n) ==
    IF n = 0 THEN <<>>
    ELSE GlobalMemoryInteractions(ss, memory, n - 1)
            \o (IF Touched(ss, Addrs[n])
                THEN <<[dir |-> "receive", scope |-> "Global", kind |-> "Memory",
                        values |-> <<BootRecord.shard, BootRecord.clk, Addrs[n]>>
                                      \o ToWord(BootRecord.value),
                        mult |-> 1],
                       [dir |-> "send", scope |-> "Global", kind |-> "Memory",
                        values |-> <<memory[n].shard, memory[n].clk, Addrs[n]>>
                                      \o ToWord(memory[n].value),
                        mult |-> 1]>>
                ELSE <<>>)

RECURSIVE Total(_, _, _, _, _)
\* The total multiplicity, in the field, of the interactions 1 .. n of the list that
\* have the given direction and scope and carry the values t.
Total(is, n, dir, scope, t) ==
    IF n = 0 THEN 0
    ELSE FAdd(Total(is, n - 1, dir, scope, t),
              IF is[n].dir = dir /\ is[n].scope = scope /\ is[n].values = t
              THEN is[n].mult ELSE 0)

\* The Global-scope Memory interactions of all shards cancel: every tuple is sent
\* and received with the same total multiplicity.
GlobalBalanced(ss, memory) ==
    \A is \in {SelectSeq(ShardsInteractions(ss, Len(ss))
                             \o GlobalMemoryInteractions(ss, memory, Len(Addrs)),
                         LAMBDA x : x.scope = "Global" /\ x.mult # 0)} :
        \A j \in 1..Len(is) :
            Total(is, Len(is), "send", "Global", is[j].values)
                = Total(is, Len(is), "receive", "Global", is[j].values)

RECURSIVE CpuMemoryInteractions(_, _)
\* The Local-scope interactions of the memory accesses 1 .. n of the instructions of
\* a shard: an access sends the record the address held and receives the record the
\* access leaves.
CpuMemoryInteractions(events, n) ==
    IF n = 0 THEN <<>>
    ELSE CpuMemoryInteractions(events, n - 1)
            \o <<[dir |-> "send", scope |-> "Local", kind |-> "Memory",
                  values |-> <<events[n].prev.shard, events[n].prev.clk, events[n].addr>>
                                \o ToWord(events[n].prev.value),
                  mult |-> 1],
                 [dir |-> "receive", scope |-> "Local", kind |-> "Memory",
                  values |-> <<events[n].current.shard, events[n].current.clk,
                               events[n].addr>>
                                \o ToWord(events[n].current.value),
                  mult |-> 1]>>

\* The Local-scope Memory interactions of a shard cancel: every tuple is sent and
\* received with the same total multiplicity by the two Memory Local tables and the
\* memory accesses of the shard.
LocalBalanced(s) ==
    \A is \in {SelectSeq(TableInteractions("Initialize", s.init, Len(s.init))
                             \o TableInteractions("Finalize", s.fin, Len(s.fin))
                             \o CpuMemoryInteractions(s.record.cpu_events,
                                                      Len(s.record.cpu_events)),
                         LAMBDA x : x.scope = "Local" /\ x.mult # 0)} :
        \A j \in 1..Len(is) :
            Total(is, Len(is), "send", "Local", is[j].values)
                = Total(is, Len(is), "receive", "Local", is[j].values)

\* The rows of the Opcode-Specific table the prover may lay out: one more under the
\* "dispatch" focus, where two rows may receive one tuple.
OpRowsBound(f) == IF f = "dispatch" THEN MaxOpRows + 1 ELSE MaxOpRows

---------------------------------------------------------------------------
(* The SDK: LocalProver, LocalProofRequest and download_file.              *)

\* enum Mode.
Modes == {"Execute", "Core", "Compressed", "Plonk", "Groth16"}

\* Mode::default.
Mode_default == "Groth16"

\* The proving keys, the inputs and the options of the calls.
ProvingKeys == {"pk_a", "pk_b"}

Stdins == {"stdin_a", "stdin_b"}

CycleLimits == {0, 1000}

ProofOptsSet ==
    [timeout : 0..MaxTimeout, mode : Modes, cycle_limit : CycleLimits]

\* LocalProofRequest::new.
LocalProofRequest_new(pk, stdin) ==
    [pk |-> pk, stdin |-> stdin, timeout |-> 0, mode |-> Mode_default]

\* LocalProofRequest::with_mode.
with_mode(self, mode) == [self EXCEPT !.mode = mode]

\* LocalProofRequest::with_timeout.
with_timeout(self, timeout) == [self EXCEPT !.timeout = timeout]

\* The request LocalProver::prove_with_options builds of its arguments.
prove_with_options_request(pk, stdin, opts) ==
    with_timeout(LocalProofRequest_new(pk, stdin), opts.timeout)

\* The ProofOpts LocalProofRequest::run builds of the request.
run_opts(self) == [timeout |-> self.timeout, mode |-> self.mode, cycle_limit |-> 0]

\* The frame of a call of prove_with_options and that of a call of run.
ProveFrame(pk, stdin, opts) ==
    [fn |-> "prove_with_options", pk |-> pk, stdin |-> stdin, opts |-> opts]

RunFrame(request) == [fn |-> "run", request |-> request]

\* min of std::cmp.
Min(a, b) == IF a <= b THEN a ELSE b

\* The position download_file reports after a chunk, without the bound of the total
\* size.
new_position_unclamped(downloaded, len, total_size) == downloaded + len

\* The position download_file reports after a chunk of the given length.
new_position(downloaded, len, total_size) == Min(downloaded + len, total_size)

\* download_file has not been called.
NoDownload ==
    [pc |-> "idle", total_size |-> 0, downloaded |-> 0, position |-> 0, chunk |-> 0,
     chunks |-> 0, written |-> 0, writes |-> 0, advances |-> 0, result |-> "none"]

---------------------------------------------------------------------------
(* The state machine.                                                      *)

Init ==
    /\ focus \in Focuses
    /\ pv \in PublicValuesOf(focus)
    /\ \E r \in Candidates(focus, HonestFirst(pv)) : cpu = <<r>>
    /\ cpuClosed = FALSE
    /\ ops = <<>>
    /\ rt = RuntimeStart
    /\ shards = <<>>
    /\ done = FALSE
    /\ tampered = FALSE
    /\ rec = DefaultRecord
    /\ trace = NoCalls
    /\ incl = NoCalls
    /\ stack = <<>>
    /\ outcome = "none"
    /\ dl = NoDownload

\* The prover lays out the row after the last one; CpuChip::eval is evaluated on the
\* window (last row, new row), a transition window, and must hold.
AddRow ==
    /\ ~cpuClosed
    /\ Len(cpu) < MaxRows
    /\ \E next \in Candidates(focus, HonestNext(cpu[Len(cpu)])) :
          /\ CpuEval(cpu[Len(cpu)], next, pv, Len(cpu) = 1, FALSE)
          /\ cpu' = Append(cpu, next)
    /\ UNCHANGED <<focus, pv, cpuClosed, ops>>
    /\ UNCHANGED memVars
    /\ UNCHANGED recVars
    /\ UNCHANGED sdkVars
    /\ UNCHANGED dlVars

\* The prover ends the CPU table; CpuChip::eval is evaluated on the window of the
\* last row, whose next row is row 0, and must hold.
CloseCpu ==
    /\ ~cpuClosed
    /\ CpuEval(cpu[Len(cpu)], cpu[1], pv, Len(cpu) = 1, TRUE)
    /\ cpuClosed' = TRUE
    /\ UNCHANGED <<focus, pv, cpu, ops>>
    /\ UNCHANGED memVars
    /\ UNCHANGED recVars
    /\ UNCHANGED sdkVars
    /\ UNCHANGED dlVars

\* The prover lays out a row of the Opcode-Specific table, for a CPU row that needs
\* opcode-specific columns; CpuOpcodeSpecificChip::eval is evaluated on it and must
\* hold.
AddOpRow ==
    /\ cpuClosed
    /\ Len(ops) < OpRowsBound(focus)
    /\ \E i \in {j \in 1..Len(cpu) : send_instruction_mult(cpu[j]) # 0} :
          \E o \in OpCandidates(focus, HonestOp(cpu[i])) :
             /\ OpcodeSpecificEval(o)
             /\ ops' = Append(ops, o)
    /\ UNCHANGED <<focus, pv, cpu, cpuClosed>>
    /\ UNCHANGED memVars
    /\ UNCHANGED recVars
    /\ UNCHANGED sdkVars
    /\ UNCHANGED dlVars

Next == AddRow \/ CloseCpu \/ AddOpRow

Spec == Init /\ [][Next]_vars

\* Both tables are complete and accepted, and the dispatch lookup closes.
Accepted == cpuClosed /\ DispatchBalanced(cpu, ops)

---------------------------------------------------------------------------
(* The state machine of the Memory Local tables: the runtime executes      *)
(* memory accesses and closes shards; generate_trace builds the two tables *)
(* of every shard it closes; after the execution the prover may change one *)
(* column of one row of one table, and MemoryLocalChip::eval must hold on  *)
(* the row.                                                                *)

\* The values a column of a Memory Local row may be changed to.
TamperedRows(row) ==
    {[row EXCEPT !.shard = sh] : sh \in 0..(MaxShards - 1)}
    \cup {[row EXCEPT !.clk = 4 * c] : c \in 0..(MaxAccesses - 1)}
    \cup {[row EXCEPT !.value = w] : w \in {ToWord(0), ToWord(300)}}
    \cup {[row EXCEPT !.is_real = r] : r \in {0, 1, 2}}

InitMem ==
    /\ focus = "memory"
    /\ pv = [execution_shard |-> 0, start_pc |-> 0, next_pc |-> 0, exit_code |-> 0]
    /\ cpu = <<>>
    /\ cpuClosed = FALSE
    /\ ops = <<>>
    /\ rt = RuntimeStart
    /\ shards = <<>>
    /\ done = FALSE
    /\ tampered = FALSE
    /\ rec = DefaultRecord
    /\ trace = NoCalls
    /\ incl = NoCalls
    /\ stack = <<>>
    /\ outcome = "none"
    /\ dl = NoDownload

\* The runtime executes an instruction that reads address Addrs[a], or writes 300
\* to it, at the clk of the instruction, and moves on to the next instruction.
MemAccess ==
    /\ ~done
    /\ rt.accesses < MaxAccesses
    /\ \E a \in 1..Len(Addrs), write \in BOOLEAN :
          LET prev == rt.memory[a]
              m == [shard |-> rt.shard, clk |-> rt.clk,
                    value |-> IF write THEN 300 ELSE prev.value]
          IN  rt' = [rt EXCEPT !.memory[a] = m,
                               !.clk = rt.clk + 4,
                               !.accesses = rt.accesses + 1,
                               !.local_memory_access =
                                   RecordLocalAccess(rt.local_memory_access, a, prev, m),
                               !.cpu_events =
                                   Append(rt.cpu_events,
                                          [addr |-> Addrs[a], prev |-> prev, current |-> m])]
    /\ UNCHANGED <<shards, done, tampered>>
    /\ UNCHANGED cpuVars
    /\ UNCHANGED recVars
    /\ UNCHANGED sdkVars
    /\ UNCHANGED dlVars

\* The record of the shard the runtime is in, with the two tables generate_trace
\* builds of it.
ClosedShard ==
    LET record == [local_memory_access |-> rt.local_memory_access,
                   keccak_permute_events |-> <<>>,
                   cpu_events |-> rt.cpu_events]
    IN  [record |-> record,
         init |-> generate_trace("Initialize", record),
         fin |-> generate_trace("Finalize", record)]

\* The runtime closes a shard that accessed memory and opens the next one, whose clk
\* starts at 0.
EndShard ==
    /\ ~done
    /\ Len(shards) < MaxShards - 1
    /\ rt.local_memory_access # <<>>
    /\ shards' = Append(shards, ClosedShard)
    /\ rt' = [rt EXCEPT !.shard = rt.shard + 1, !.clk = 0, !.local_memory_access = <<>>,
                         !.cpu_events = <<>>]
    /\ UNCHANGED <<done, tampered>>
    /\ UNCHANGED cpuVars
    /\ UNCHANGED recVars
    /\ UNCHANGED sdkVars
    /\ UNCHANGED dlVars

\* The execution ends: the runtime closes its last shard.
Finish ==
    /\ ~done
    /\ shards' = Append(shards, ClosedShard)
    /\ rt' = [rt EXCEPT !.local_memory_access = <<>>, !.cpu_events = <<>>]
    /\ done' = TRUE
    /\ UNCHANGED tampered
    /\ UNCHANGED cpuVars
    /\ UNCHANGED recVars
    /\ UNCHANGED sdkVars
    /\ UNCHANGED dlVars

\* The prover changes one column of one row of one table; the row satisfies
\* MemoryLocalChip::eval.
Tamper ==
    /\ done
    /\ ~tampered
    /\ \E k \in 1..Len(shards), table \in {"init", "fin"} :
          \E i \in 1..Len(shards[k][table]) :
             \E row \in TamperedRows(shards[k][table][i]) \ {shards[k][table][i]} :
                /\ MemoryLocalEval(row)
                /\ shards' = [shards EXCEPT ![k][table][i] = row]
    /\ tampered' = TRUE
    /\ UNCHANGED <<rt, done>>
    /\ UNCHANGED cpuVars
    /\ UNCHANGED recVars
    /\ UNCHANGED sdkVars
    /\ UNCHANGED dlVars

NextMem == MemAccess \/ EndShard \/ Finish \/ Tamper

SpecMem == InitMem /\ [][NextMem]_vars

---------------------------------------------------------------------------
(* MemoryLocalChip::included and MemoryLocalChip::generate_trace as        *)
(* functions of an execution record: the record is any record of the       *)
(* shapes below, and the two chips are asked, in any order, whether they   *)
(* are included and for their trace.                                       *)

\* The local memory events of the records: per address one whose initial access is
\* the untouched record and one whose initial access is a write of an earlier shard.
SampleEvents ==
    {[addr |-> Addrs[a],
      initial_mem_access |-> i,
      final_mem_access |-> [shard |-> 1, clk |-> 4 * a, value |-> 300 + a]] :
        a \in 1..Len(Addrs), i \in {BootRecord, [shard |-> 0, clk |-> 12, value |-> 300]}}

\* The local memory events of the keccak permute events: one per address, read in
\* from the same shard and written back.
SampleKeccakEvents ==
    {[addr |-> Addrs[a],
      initial_mem_access |-> [shard |-> 1, clk |-> 4 * a, value |-> 300 + a],
      final_mem_access |-> [shard |-> 1, clk |-> 16 + a, value |-> 70000 + a]] :
        a \in 1..Len(Addrs)}

\* The lists of at most n events of a set that hold no address twice: the runtime
\* keeps the events of a record, and of a precompile event, in a map by address.
EventLists(S, n) ==
    UNION {{l \in [1..k -> S] : \A i, j \in 1..k : l[i].addr = l[j].addr => i = j} :
              k \in 0..n}

\* The lists of at most n elements of a set.
ListsUpTo(S, n) == UNION {[1..k -> S] : k \in 0..n}

\* The execution records handed to the chips.
Records ==
    {[local_memory_access |-> l, keccak_permute_events |-> k] :
        l \in EventLists(SampleEvents, MaxEvents),
        k \in ListsUpTo({[local_mem_access |-> m] :
                             m \in EventLists(SampleKeccakEvents, MaxKeccakAccesses)},
                        MaxKeccakEvents)}

InitRec ==
    /\ focus = "record"
    /\ pv = [execution_shard |-> 0, start_pc |-> 0, next_pc |-> 0, exit_code |-> 0]
    /\ cpu = <<>>
    /\ cpuClosed = FALSE
    /\ ops = <<>>
    /\ rt = RuntimeStart
    /\ shards = <<>>
    /\ done = FALSE
    /\ tampered = FALSE
    /\ rec \in Records
    /\ trace = NoCalls
    /\ incl = NoCalls
    /\ stack = <<>>
    /\ outcome = "none"
    /\ dl = NoDownload

\* The chip of a mode generates its trace of the record.
GenerateTrace ==
    /\ \E kind \in MemoryChipType :
          /\ trace[kind] = <<>>
          /\ trace' = [trace EXCEPT ![kind] = <<generate_trace(kind, rec)>>]
    /\ UNCHANGED <<rec, incl>>
    /\ UNCHANGED cpuVars
    /\ UNCHANGED memVars
    /\ UNCHANGED sdkVars
    /\ UNCHANGED dlVars

\* The machine asks the chip of a mode whether the record includes it.
Included ==
    /\ \E kind \in MemoryChipType :
          /\ incl[kind] = <<>>
          /\ incl' = [incl EXCEPT ![kind] = <<included(kind, rec)>>]
    /\ UNCHANGED <<rec, trace>>
    /\ UNCHANGED cpuVars
    /\ UNCHANGED memVars
    /\ UNCHANGED sdkVars
    /\ UNCHANGED dlVars

NextRec == GenerateTrace \/ Included

SpecRec == InitRec /\ [][NextRec]_vars

---------------------------------------------------------------------------
(* The tables as wholes: the AIR of a chip is evaluated on every row of    *)
(* its table, and the interactions of the table are those of its rows.     *)

\* The table with its rows in the order p, a permutation of the row indices.
Permute(rows, p) == [i \in 1..Len(rows) |-> rows[p[i]]]

\* The multiset of the entries of a list: every entry with the number of its
\* occurrences.
BagOf(is) ==
    [x \in {is[i] : i \in 1..Len(is)} |-> Cardinality({i \in 1..Len(is) : is[i] = x})]

\* CpuChip::eval on every window of the table; the next row of the last row is
\* row 0.
CpuTableEval(rows, pvs) ==
    \A i \in 1..Len(rows) :
        CpuEval(rows[i], rows[(i % Len(rows)) + 1], pvs, i = 1, i = Len(rows))

\* CpuOpcodeSpecificChip::eval with a constraint on the window of a row and its
\* next row: a padding row is followed by a padding row.
OpcodeSpecificTableEval_with_transition(rows) ==
    /\ \A j \in 1..Len(rows) : OpcodeSpecificEval(rows[j])
    /\ \A j \in 1..(Len(rows) - 1) : rows[j].is_real = 0 => rows[j + 1].is_real = 0

\* CpuOpcodeSpecificChip::eval on every row of the table: it reads row_slice(0)
\* only.
OpcodeSpecificTableEval(rows) ==
    \A j \in 1..Len(rows) : OpcodeSpecificEval(rows[j])

\* The interactions of CpuOpcodeSpecificChip::eval on a row: receive_instruction
\* and the send_alu of eval_auipc.
OpcodeSpecificInteractions(local) ==
    <<[dir |-> "receive", kind |-> "Instruction",
       values |-> receive_instruction_values(local), mult |-> local.is_real],
      [dir |-> "send", kind |-> "Alu",
       values |-> auipc_send_alu_values(local), mult |-> auipc_send_alu_mult(local)]>>

RECURSIVE OpcodeSpecificTableInteractions(_, _)
\* The interactions of rows 1 .. n of the Opcode-Specific table.
OpcodeSpecificTableInteractions(rows, n) ==
    IF n = 0 THEN <<>>
    ELSE OpcodeSpecificTableInteractions(rows, n - 1)
            \o OpcodeSpecificInteractions(rows[n])

\* MemoryLocalChip::eval on every row of the table: it reads row_slice(0) only.
MemoryLocalTableEval(rows) ==
    \A i \in 1..Len(rows) : MemoryLocalEval(rows[i])

\* The focuses whose Opcode-Specific tables hold rows of different kinds.
TableFocuses == {"dispatch", "auipc"}

\* The state machine of all the tables: that of the CPU tables from its initial
\* states of those focuses, that of the Memory Local tables from its own.
InitTables == (Init /\ focus \in TableFocuses) \/ InitMem

NextTables ==
    \/ focus \in Focuses /\ Next
    \/ focus = "memory" /\ NextMem

SpecTables == InitTables /\ [][NextTables]_vars

---------------------------------------------------------------------------
(* The state machine of LocalProver::prove_with_options: a client calls    *)
(* it once; every call of the SDK in progress holds a frame of the stack   *)
(* of the thread that polls the future.                                    *)

InitSdk ==
    /\ focus = "sdk"
    /\ pv = [execution_shard |-> 0, start_pc |-> 0, next_pc |-> 0, exit_code |-> 0]
    /\ cpu = <<>>
    /\ cpuClosed = FALSE
    /\ ops = <<>>
    /\ rt = RuntimeStart
    /\ shards = <<>>
    /\ done = FALSE
    /\ tampered = FALSE
    /\ rec = DefaultRecord
    /\ trace = NoCalls
    /\ incl = NoCalls
    /\ stack = <<>>
    /\ outcome = "none"
    /\ dl = NoDownload

\* The client calls prove_with_options with a proving key, an input and options.
Call ==
    /\ stack = <<>>
    /\ outcome = "none"
    /\ \E pk \in ProvingKeys, stdin \in Stdins, opts \in ProofOptsSet :
          stack' = <<ProveFrame(pk, stdin, opts)>>
    /\ UNCHANGED outcome
    /\ UNCHANGED <<cpuVars, memVars, recVars, dlVars>>

\* LocalProver::prove_with_options: it builds the request and awaits request.run().
ProveWithOptions ==
    /\ outcome = "none"
    /\ stack # <<>>
    /\ Len(stack) < MaxDepth
    /\ stack[Len(stack)].fn = "prove_with_options"
    /\ LET top == stack[Len(stack)]
       IN  stack' = Append(stack,
                           RunFrame(prove_with_options_request(top.pk, top.stdin,
                                                               top.opts)))
    /\ UNCHANGED outcome
    /\ UNCHANGED <<cpuVars, memVars, recVars, dlVars>>

\* LocalProofRequest::run: it awaits prove_with_options of its prover with the
\* options it builds of itself.
Run ==
    /\ outcome = "none"
    /\ stack # <<>>
    /\ Len(stack) < MaxDepth
    /\ stack[Len(stack)].fn = "run"
    /\ LET self == stack[Len(stack)].request
       IN  stack' = Append(stack, ProveFrame(self.pk, self.stdin, run_opts(self)))
    /\ UNCHANGED outcome
    /\ UNCHANGED <<cpuVars, memVars, recVars, dlVars>>

\* The stack of the thread has no room for another frame: the process is aborted,
\* and no call returns.
StackOverflow ==
    /\ outcome = "none"
    /\ Len(stack) = MaxDepth
    /\ outcome' = "abort"
    /\ UNCHANGED stack
    /\ UNCHANGED <<cpuVars, memVars, recVars, dlVars>>

NextSdk == Call \/ ProveWithOptions \/ Run \/ StackOverflow

\* The executor polls the future of the call for as long as it can make a step.
SpecSdk == InitSdk /\ [][NextSdk]_vars /\ WF_vars(NextSdk)

---------------------------------------------------------------------------
(* The state machine of download_file: one call, a statement at a time.    *)
(* The server, the body stream and the file answer as they please.         *)

InitDl ==
    /\ focus = "download"
    /\ pv = [execution_shard |-> 0, start_pc |-> 0, next_pc |-> 0, exit_code |-> 0]
    /\ cpu = <<>>
    /\ cpuClosed = FALSE
    /\ ops = <<>>
    /\ rt = RuntimeStart
    /\ shards = <<>>
    /\ done = FALSE
    /\ tampered = FALSE
    /\ rec = DefaultRecord
    /\ trace = NoCalls
    /\ incl = NoCalls
    /\ stack = <<>>
    /\ outcome = "none"
    /\ dl = NoDownload

\* client.get(url).send().await: the response, or the error "Failed to GET".
Get ==
    /\ dl.pc = "idle"
    /\ \E ok \in BOOLEAN :
          dl' = IF ok THEN [dl EXCEPT !.pc = "length"]
                ELSE [dl EXCEPT !.pc = "returned", !.result = "Failed to GET"]
    /\ UNCHANGED <<cpuVars, memVars, recVars, sdkVars>>

\* res.content_length(): the announced length, with which the progress bar is made
\* at position 0, or the error "Failed to get content length".
ContentLength ==
    /\ dl.pc = "length"
    /\ \/ \E n \in 0..MaxTotal :
             dl' = [dl EXCEPT !.pc = "next", !.total_size = n, !.downloaded = 0,
                              !.position = 0]
       \/ dl' = [dl EXCEPT !.pc = "returned", !.result = "Failed to get content length"]
    /\ UNCHANGED <<cpuVars, memVars, recVars, sdkVars>>

\* stream.next().await: a chunk of some length, an error, which returns "Error while
\* downloading file", or the end of the body, after which the bar is finished, at
\* its position or at its length, and Ok(()) is returned.
StreamNext ==
    /\ dl.pc = "next"
    /\ \/ /\ dl.chunks < MaxChunks
          /\ \E len \in 0..MaxChunk :
                dl' = [dl EXCEPT !.pc = "write", !.chunk = len, !.chunks = dl.chunks + 1]
       \/ dl' = [dl EXCEPT !.pc = "returned", !.result = "Error while downloading file"]
       \/ \E pos \in {dl.position, dl.total_size} :
             dl' = [dl EXCEPT !.pc = "returned", !.result = "Ok", !.position = pos]
    /\ UNCHANGED <<cpuVars, memVars, recVars, sdkVars>>

\* file.write_all(&chunk): the whole chunk is written, or a part of it and the error
\* "Error while writing to file" is returned.
WriteAll ==
    /\ dl.pc = "write"
    /\ \/ dl' = [dl EXCEPT !.pc = "advance", !.written = dl.written + dl.chunk,
                            !.writes = dl.writes + 1]
       \/ \E part \in 0..(dl.chunk - 1) :
             dl' = [dl EXCEPT !.pc = "returned", !.written = dl.written + part,
                              !.result = "Error while writing to file"]
    /\ UNCHANGED <<cpuVars, memVars, recVars, sdkVars>>

\* new = min(downloaded + chunk.len(), total_size); downloaded = new;
\* pb.set_position(new).
Advance ==
    /\ dl.pc = "advance"
    /\ LET new == new_position(dl.downloaded, dl.chunk, dl.total_size)
       IN  dl' = [dl EXCEPT !.pc = "next", !.downloaded = new, !.position = new,
                            !.advances = dl.advances + 1]
    /\ UNCHANGED <<cpuVars, memVars, recVars, sdkVars>>

NextDl == Get \/ ContentLength \/ StreamNext \/ WriteAll \/ Advance

SpecDl == InitDl /\ [][NextDl]_vars

---------------------------------------------------------------------------
(* Properties of accepted tables.                                          *)

Rows == 1..Len(cpu)

\* The index of the last real row of the CPU table.
LastReal == CHOOSE k \in Rows : cpu[k].is_real # 0 /\ \A j \in Rows : j > k => cpu[j].is_real = 0

\* C1: in every accepted CPU table is_real is 0 or 1 on every row, is 1 on the
\* first row, and once it is 0 it is 0 on every later row: the real rows are a
\* non-empty contiguous prefix of the table.
C1_IsRealPrefix ==
    cpuClosed =>
        /\ \A i \in Rows : cpu[i].is_real \in {0, 1}
        /\ cpu[1].is_real = 1
        /\ \A i, j \in Rows : (i < j /\ cpu[i].is_real = 0) => cpu[j].is_real = 0
        /\ \E k \in Rows : \A i \in Rows : cpu[i].is_real = 1 <=> i <= k

\* An accepted table of three rows whose real rows are a proper prefix.
C1_Witness ==
    /\ cpuClosed
    /\ Len(cpu) = 3
    /\ cpu[1].is_real = 1
    /\ cpu[2].is_real = 0
    /\ cpu[3].is_real = 0

\* The extra cycles the claims speak of: element 2 of op_a's previous value on an
\* ECALL row, nothing on any other row.
ExtraCyclesOf(r) == IF r.selectors["is_ecall"] = 1 THEN r.op_a_prev[3] ELSE 0

\* C2: in every accepted CPU table clk is 0 on row 0, and every row followed by a
\* real row has next.clk = local.clk + 4 + extra_cycles(local) in the field.
C2_ClkIncrement ==
    cpuClosed =>
        /\ cpu[1].clk = 0
        /\ \A i \in Rows :
              (i < Len(cpu) /\ cpu[i + 1].is_real = 1) =>
                  cpu[i + 1].clk = (cpu[i].clk + 4 + ExtraCyclesOf(cpu[i])) % P

\* An accepted table in which a real row follows an ECALL with 48 extra cycles and
\* another follows a row that is no ECALL but holds the same syscall code.
C2_Witness ==
    /\ cpuClosed
    /\ Len(cpu) = 3
    /\ cpu[1].selectors["is_ecall"] = 1
    /\ cpu[1].op_a_prev = SyscallShaExtend
    /\ cpu[2].is_real = 1
    /\ cpu[2].clk = 52
    /\ cpu[2].selectors["is_ecall"] = 0
    /\ cpu[2].op_a_prev = SyscallShaExtend
    /\ cpu[3].is_real = 1
    /\ cpu[3].clk = 56

\* C3: in every accepted CPU table every row followed by a real row has
\* local.next_pc = next.pc.
C3_PcChain ==
    cpuClosed =>
        \A i \in Rows :
            (i < Len(cpu) /\ cpu[i + 1].is_real = 1) => cpu[i].next_pc = cpu[i + 1].pc

\* An accepted table whose second real row starts at the target of a first row that
\* does not fall through to pc + 4.
C3_Witness ==
    /\ cpuClosed
    /\ Len(cpu) >= 2
    /\ cpu[2].is_real = 1
    /\ cpu[1].next_pc = FAdd(cpu[1].pc, 8)
    /\ cpu[2].pc = cpu[1].next_pc

\* The class of a row as the claims name it.
IsBranchRow(r) == \E n \in BranchSelectors : r.selectors[n] = 1

IsJumpRow(r) == r.selectors["is_jal"] = 1 \/ r.selectors["is_jalr"] = 1

\* C4: when both tables are accepted and the dispatch lookup balances, every real
\* CPU row that is no branch, no jump and no halt, ALU rows included, has
\* next_pc = pc + 4.
C4_SequentialNextPc ==
    Accepted =>
        \A i \in Rows :
            (cpu[i].is_real = 1 /\ ~IsBranchRow(cpu[i]) /\ ~IsJumpRow(cpu[i])
                /\ cpu[i].is_halt = 0)
            => cpu[i].next_pc = FAdd(cpu[i].pc, 4)

\* The CPU row sends the dispatch tuple.
IsDispatched(r) == send_instruction_mult(r) # 0

\* What the two chips do enforce of C4: on every real row that is dispatched and is
\* no branch, no jump and no halt, next_pc = pc + 4.
DispatchedSequentialNextPc ==
    Accepted =>
        \A i \in Rows :
            (cpu[i].is_real = 1 /\ IsDispatched(cpu[i]) /\ ~IsBranchRow(cpu[i])
                /\ ~IsJumpRow(cpu[i]) /\ cpu[i].is_halt = 0)
            => cpu[i].next_pc = FAdd(cpu[i].pc, 4)

\* C5: in every accepted CPU table, after a row that is not the last and has
\* is_halt = 1 or the unimplemented selector set, no row is real.
C5_HaltEndsExecution ==
    cpuClosed =>
        \A i \in Rows :
            (i < Len(cpu) /\ (cpu[i].is_halt = 1 \/ cpu[i].selectors["is_unimpl"] = 1))
            => \A j \in Rows : j > i => cpu[j].is_real = 0

\* C6: in every accepted CPU table, on every row with is_halt = 1, the last row
\* included, the public exit code is b0 + 2^8 b1 + 2^16 b2 + 2^24 b3 of the row's
\* op_b word.
C6_ExitCode ==
    cpuClosed =>
        \A i \in Rows :
            cpu[i].is_halt = 1 =>
                pv.exit_code = (cpu[i].op_b[1] + 256 * cpu[i].op_b[2]
                                + 65536 * cpu[i].op_b[3] + 16777216 * cpu[i].op_b[4]) % P

\* An accepted table whose last row is real and halts with exit code 257.
C6_Witness ==
    /\ cpuClosed
    /\ Len(cpu) >= 2
    /\ cpu[Len(cpu)].is_real = 1
    /\ cpu[Len(cpu)].is_halt = 1
    /\ cpu[Len(cpu)].op_b = <<1, 1, 0, 0>>
    /\ pv.exit_code = 257

\* The row is an ECALL whose syscall code is HALT.
IsHaltEcall(r) == r.selectors["is_ecall"] = 1 /\ r.op_a_prev[1] = HaltSyscallId

\* C7: when both tables are accepted and the dispatch lookup balances, on every CPU
\* row, whatever its class, is_halt = 1 only if the row is an ECALL whose syscall
\* code is HALT, and every real HALT ECALL row has is_halt = 1.
C7_IsHaltDerived ==
    Accepted =>
        \A i \in Rows :
            /\ cpu[i].is_halt = 1 => IsHaltEcall(cpu[i])
            /\ (cpu[i].is_real = 1 /\ IsHaltEcall(cpu[i])) => cpu[i].is_halt = 1

\* What the two chips do enforce of C7: on every row that is dispatched, is_halt is
\* 1 if the row is a HALT ECALL and 0 otherwise.
DispatchedIsHaltDerived ==
    Accepted =>
        \A i \in Rows :
            IsDispatched(cpu[i]) => cpu[i].is_halt = (IF IsHaltEcall(cpu[i]) THEN 1 ELSE 0)

\* An accepted pair of tables in which a real HALT ECALL row of the CPU table is
\* matched by a row of the Opcode-Specific table.
DispatchedHaltReached ==
    /\ Accepted
    /\ Len(ops) = 1
    /\ ops[1].is_real = 1
    /\ ops[1].is_halt = 1

\* C8: in every accepted CPU table every real row carries the public execution
\* shard, and so all real rows carry the same shard.
C8_Shard ==
    cpuClosed =>
        /\ \A i \in Rows : cpu[i].is_real = 1 => cpu[i].shard = pv.execution_shard
        /\ \A i, j \in Rows :
              (cpu[i].is_real = 1 /\ cpu[j].is_real = 1) => cpu[i].shard = cpu[j].shard

\* An accepted table of execution shard 2 with two real rows and a padding row of
\* another shard.
C8_Witness ==
    /\ cpuClosed
    /\ Len(cpu) = 3
    /\ pv.execution_shard = 2
    /\ cpu[2].is_real = 1
    /\ cpu[2].shard = 2
    /\ cpu[3].is_real = 0
    /\ cpu[3].shard = 1

\* C9: in every accepted CPU table the public next_pc is the next_pc of the last
\* real row, whether a padding row follows it or it is the last row of the table.
C9_PublicNextPc ==
    cpuClosed => pv.next_pc = cpu[LastReal].next_pc

\* An accepted table whose last real row is followed by a padding row, and in which
\* neither the next_pc of the earlier real row nor that of the padding row is the
\* public next_pc: no other row is bound to it.
C9_Witness ==
    /\ cpuClosed
    /\ Len(cpu) = 3
    /\ cpu[2].is_real = 1
    /\ cpu[3].is_real = 0
    /\ cpu[2].next_pc = pv.next_pc
    /\ cpu[1].next_pc # pv.next_pc
    /\ cpu[3].next_pc # pv.next_pc

\* The other shape of C9: the last real row is the last row of the table.
C9_WitnessLastRow ==
    /\ cpuClosed
    /\ Len(cpu) = 3
    /\ cpu[3].is_real = 1
    /\ cpu[3].next_pc = pv.next_pc
    /\ cpu[2].next_pc # pv.next_pc

\* C10: in every accepted CPU table the pc of the first row is the public start_pc.
C10_StartPc ==
    cpuClosed => cpu[1].pc = pv.start_pc

\* An accepted table that starts at a start_pc other than 0.
C10_Witness ==
    /\ cpuClosed
    /\ pv.start_pc = 4
    /\ cpu[1].pc = 4
    /\ Len(cpu) >= 2

---------------------------------------------------------------------------
(* The selector block and the interactions of the CPU table.               *)

\* C11: in every accepted CPU table, on every row with is_real = 0 every selector
\* of the selector block is 0, except imm_b and imm_c, which are both 1.
C11_PaddingSelectors ==
    cpuClosed =>
        \A i \in Rows :
            cpu[i].is_real = 0 =>
                /\ cpu[i].selectors["imm_b"] = 1
                /\ cpu[i].selectors["imm_c"] = 1
                /\ \A n \in SelectorNames \ {"imm_b", "imm_c"} : cpu[i].selectors[n] = 0

\* An accepted table under the "fetch" focus, where a padding row may be laid out
\* with an all-zero selector block, that ends in a padding row.
C11_Witness ==
    /\ cpuClosed
    /\ focus = "fetch"
    /\ Len(cpu) >= 2
    /\ cpu[Len(cpu)].is_real = 0
    /\ cpu[Len(cpu)].selectors = SelPad

\* The selectors that classify an instruction: all but the two immediate flags.
ClassSelectors == SelectorNames \ {"imm_b", "imm_c"}

C12_NoClassAccepted ==
    /\ cpuClosed
    /\ \E i \in Rows : cpu[i].is_real = 1 /\ cpu[i].selectors = SelZero
    /\ \E i \in Rows : cpu[i].is_real = 1 /\ cpu[i].selectors = SelAluJal

\* C13: in every accepted CPU table a row with is_real = 0 has multiplicity 0 in
\* every interaction CpuChip::eval emits: the program fetch, the ALU send, the
\* instruction-dispatch send, the 16-bit range check of the shard and the 24-bit
\* range check of the clk.
C13_PaddingSendsNothing ==
    cpuClosed =>
        \A i \in Rows :
            cpu[i].is_real = 0 =>
                /\ send_program_mult(cpu[i]) = 0
                /\ send_alu_mult(cpu[i]) = 0
                /\ send_instruction_mult(cpu[i]) = 0
                /\ shard_range_check_mult(cpu[i]) = 0
                /\ clk_range_check_mult(cpu[i]) = 0

\* An accepted table, under a focus in which padding rows may be laid out as ALU,
\* ECALL and JAL rows, with a real row that is dispatched and a padding row.
C13_Witness ==
    /\ cpuClosed
    /\ focus = "seq"
    /\ Len(cpu) = 3
    /\ send_instruction_mult(cpu[1]) = 1
    /\ cpu[2].is_real = 1
    /\ cpu[3].is_real = 0

\* The row is of a class CpuChip::eval dispatches.
IsDispatchClass(r) ==
    \/ IsBranchRow(r)
    \/ IsJumpRow(r)
    \/ \E n \in MemorySelectors : r.selectors[n] = 1
    \/ r.selectors["is_auipc"] = 1
    \/ r.selectors["is_ecall"] = 1

\* The rows of the Opcode-Specific table that receive with a non-zero multiplicity.
RealOps == {j \in 1..Len(ops) : ops[j].is_real # 0}

\* The CPU rows that send the dispatch tuple.
DispatchedRows == {i \in Rows : IsDispatched(cpu[i])}

\* The real Opcode-Specific rows correspond one-to-one to the dispatched CPU rows,
\* each with the tuple of its CPU row.
OneToOne ==
    \E f \in [RealOps -> DispatchedRows] :
        /\ \A j, k \in RealOps : f[j] = f[k] => j = k
        /\ \A i \in DispatchedRows : \E j \in RealOps : f[j] = i
        /\ \A j \in RealOps :
              receive_instruction_values(ops[j]) = send_instruction_values(cpu[f[j]])

\* C14: in every accepted CPU table a row sends the dispatch tuple with
\* multiplicity 1 when it is a branch, jump, memory, AUIPC or ECALL row and with
\* multiplicity 0 otherwise; and when the dispatch lookup balances, the real rows of
\* the Opcode-Specific table correspond one-to-one to the dispatched CPU rows and
\* agree with them on every field of the tuple.
C14_DispatchOneToOne ==
    /\ cpuClosed =>
           \A i \in Rows :
               send_instruction_mult(cpu[i]) = IF IsDispatchClass(cpu[i]) THEN 1 ELSE 0
    /\ Accepted => OneToOne

\* What the two chips do enforce of C14: the multiplicity of the send is 1 on the
\* rows of a dispatched class and 0 on the others.
DispatchMultiplicity ==
    cpuClosed =>
        \A i \in Rows :
            send_instruction_mult(cpu[i]) = IF IsDispatchClass(cpu[i]) THEN 1 ELSE 0

\* What the two chips do enforce of C14: when the lookup balances, the tuple of
\* every dispatched CPU row is the tuple of a real Opcode-Specific row, and the
\* correspondence is one-to-one when is_real is 0 or 1 on every row of that table.
DispatchOneToOneBoolean ==
    Accepted =>
        /\ \A i \in DispatchedRows :
               \E j \in RealOps :
                   receive_instruction_values(ops[j]) = send_instruction_values(cpu[i])
        /\ (\A j \in 1..Len(ops) : ops[j].is_real \in {0, 1}) => OneToOne

\* An accepted pair of tables in which two Opcode-Specific rows with is_real = 2 and
\* is_real = p - 1 receive the tuple one CPU row sends.
DispatchSplitReached ==
    /\ Accepted
    /\ Len(ops) = 2
    /\ ops[1].is_real = 2
    /\ ops[2].is_real = P - 1
    /\ receive_instruction_values(ops[1]) = receive_instruction_values(ops[2])

\* The row is the ADD of the scenario: at pc = 0, with op_b = 3 and op_c = 4.
IsScenarioAdd(r) ==
    /\ r.is_real = 1
    /\ r.selectors["is_alu"] = 1
    /\ r.instruction.opcode = "ADD"
    /\ r.pc = 0
    /\ r.op_b = <<3, 0, 0, 0>>
    /\ r.op_c = <<4, 0, 0, 0>>

\* C15: in every accepted CPU table a real row with the ALU selector set sends the
\* ALU tuple (opcode, op_a, op_b, op_c, shard, channel, nonce) of its own columns
\* with multiplicity 1, and a row whose ALU selector is 0 sends it with multiplicity
\* 0; when the ALU lookup closes, the tuple an ADD at pc = 0 with op_b = 3 and
\* op_c = 4 sends is (ADD, 7, 3, 4, shard, channel, nonce).
C15_AluSend ==
    cpuClosed =>
        \A i \in Rows :
            /\ (cpu[i].is_real = 1 /\ cpu[i].selectors["is_alu"] = 1) =>
                   /\ send_alu_mult(cpu[i]) = 1
                   /\ send_alu_values(cpu[i]) =
                          <<cpu[i].instruction.opcode, cpu[i].op_a, cpu[i].op_b, cpu[i].op_c,
                            cpu[i].shard, cpu[i].channel, cpu[i].nonce>>
            /\ cpu[i].selectors["is_alu"] = 0 => send_alu_mult(cpu[i]) = 0
            /\ (AluBalanced(cpu) /\ IsScenarioAdd(cpu[i])) =>
                   send_alu_values(cpu[i]) =
                       <<"ADD", <<7, 0, 0, 0>>, <<3, 0, 0, 0>>, <<4, 0, 0, 0>>,
                         cpu[i].shard, cpu[i].channel, cpu[i].nonce>>

\* An accepted table of the single ADD of the scenario whose ALU lookup closes,
\* under the focus in which op_a deviates.
C15_Witness ==
    /\ cpuClosed
    /\ focus = "alu"
    /\ AluBalanced(cpu)
    /\ Len(cpu) = 1
    /\ IsScenarioAdd(cpu[1])

\* CpuChip::eval alone accepts the ADD of the scenario with op_a = 8, and a real row
\* that is no ALU row beside an ALU row.
C15_WrongSumAccepted ==
    /\ cpuClosed
    /\ focus = "alu"
    /\ Len(cpu) = 2
    /\ IsScenarioAdd(cpu[1])
    /\ cpu[1].op_a = <<8, 0, 0, 0>>
    /\ cpu[2].is_real = 1
    /\ cpu[2].selectors["is_ecall"] = 1

\* The row fetches what the program holds at its pc.
FetchesProgram(r) ==
    /\ r.instruction = ProgramEntry(r.pc).instruction
    /\ r.selectors = ProgramEntry(r.pc).selectors

\* C16: in every accepted CPU table every real row sends the program-fetch tuple
\* (pc, instruction, selectors, shard) of its own columns with multiplicity 1; the
\* program lookup closes when every real row carries the instruction and selectors
\* the program holds at its pc, and does not close when the opcode or the op_a_0
\* field of a real row's instruction differs from the program's at that pc.
C16_ProgramFetch ==
    cpuClosed =>
        /\ \A i \in Rows :
               cpu[i].is_real = 1 =>
                   /\ send_program_mult(cpu[i]) = 1
                   /\ send_program_values(cpu[i]) =
                          <<cpu[i].pc, cpu[i].instruction, cpu[i].selectors, cpu[i].shard>>
        /\ (\A i \in Rows : cpu[i].is_real = 1 => FetchesProgram(cpu[i]))
               => ProgramBalanced(cpu)
        /\ (\E i \in Rows :
                /\ cpu[i].is_real = 1
                /\ \/ cpu[i].instruction.opcode # ProgramEntry(cpu[i].pc).instruction.opcode
                   \/ cpu[i].instruction.op_a_0 # ProgramEntry(cpu[i].pc).instruction.op_a_0)
               => ~ProgramBalanced(cpu)

\* An accepted table of two real rows and a padding row that fetches the program,
\* and whose lookup closes.
C16_Witness ==
    /\ cpuClosed
    /\ focus = "fetch"
    /\ Len(cpu) = 3
    /\ cpu[2].is_real = 1
    /\ cpu[3].is_real = 0
    /\ FetchesProgram(cpu[1])
    /\ FetchesProgram(cpu[2])
    /\ ProgramBalanced(cpu)

\* An accepted table whose second row fetches SUB where the program holds ADD, and
\* whose third fetches the ECALL with another op_a_0: its lookup does not close.
C16_TamperedReached ==
    /\ cpuClosed
    /\ focus = "fetch"
    /\ Len(cpu) = 3
    /\ cpu[2].is_real = 1
    /\ cpu[2].instruction.opcode = "SUB"
    /\ cpu[3].is_real = 1
    /\ cpu[3].instruction = [opcode |-> "ECALL", op_a_0 |-> 1]
    /\ ~ProgramBalanced(cpu)

\* C23: in every accepted CPU table whose byte lookup closes, every real row has a
\* shard in [0, 2^16) and a clk in [0, 2^24) that is its 16-bit limb plus 2^16 times
\* its 8-bit limb; a padding row sends its byte lookups with multiplicity 0, so that
\* it is not range-checked.
C23_RangeChecks ==
    /\ (cpuClosed /\ ByteBalanced(cpu)) =>
           \A i \in Rows :
               cpu[i].is_real = 1 =>
                   /\ cpu[i].shard \in 0..65535
                   /\ cpu[i].clk \in 0..16777215
                   /\ cpu[i].clk = cpu[i].clk_16bit_limb + 65536 * cpu[i].clk_8bit_limb
    /\ cpuClosed =>
           \A i \in Rows :
               cpu[i].is_real = 0 =>
                   \A n \in 1..3 : send_byte_interactions(cpu[i])[n].mult = 0

\* An accepted table whose byte lookup closes, with a real row of clk 2^24 - 1 and,
\* after it, a padding row whose clk is above 2^24 and whose shard is 2^16.
C23_Witness ==
    /\ cpuClosed
    /\ ByteBalanced(cpu)
    /\ Len(cpu) = 3
    /\ cpu[2].is_real = 1
    /\ cpu[2].clk = 16777215
    /\ cpu[2].clk_16bit_limb = 65535
    /\ cpu[2].clk_8bit_limb = 255
    /\ cpu[3].is_real = 0
    /\ cpu[3].clk > 16777216
    /\ cpu[3].shard = 65536

\* CpuChip::eval alone accepts a real row whose clk is above 2^24 and a table of
\* shard 2^16: the byte lookup of neither closes.
C23_OutOfRangeAccepted ==
    /\ cpuClosed
    /\ pv.execution_shard = 65536
    /\ Len(cpu) = 3
    /\ cpu[3].is_real = 1
    /\ cpu[3].clk > 16777216
    /\ ~ByteBalanced(cpu)

\* C24: on every row of an accepted CPU table the extra-cycle count is element 2
\* (the third element) of the value op_a held before the instruction when the row is
\* an ECALL row, and is 0 when it is not, whatever that value is; the clk of a real
\* row is the clk of the row before it plus 4 plus that count.
C24_ExtraCycles ==
    cpuClosed =>
        \A i \in Rows :
            /\ cpu[i].selectors["is_ecall"] = 1 =>
                   get_num_extra_ecall_cycles(cpu[i]) = cpu[i].op_a_prev[3]
            /\ cpu[i].selectors["is_ecall"] = 0 =>
                   get_num_extra_ecall_cycles(cpu[i]) = 0
            /\ (i < Len(cpu) /\ cpu[i + 1].is_real = 1) =>
                   cpu[i + 1].clk =
                       FAdd(FAdd(cpu[i].clk, 4),
                            IF cpu[i].selectors["is_ecall"] = 1 THEN cpu[i].op_a_prev[3]
                            ELSE 0)

\* An accepted table whose first row is an ALU row that holds the syscall code of
\* SHA_EXTEND in op_a's previous value and counts no extra cycle, and whose second
\* row is an ECALL with that code and counts 48.
C24_Witness ==
    /\ cpuClosed
    /\ Len(cpu) = 3
    /\ cpu[1].selectors["is_ecall"] = 0
    /\ cpu[1].op_a_prev = SyscallShaExtend
    /\ cpu[2].is_real = 1
    /\ cpu[2].clk = 4
    /\ cpu[2].selectors["is_ecall"] = 1
    /\ cpu[2].op_a_prev = SyscallShaExtend
    /\ cpu[3].is_real = 1
    /\ cpu[3].clk = 56

\* C25: on every row of the Opcode-Specific table with is_auipc = 1 the pc word
\* reduces to the pc of the row, and is the pc as an integer, and the row sends with
\* multiplicity 1 the ALU tuple (ADD, op_a, pc word, op_b, shard, channel,
\* auipc_nonce); when the ALU lookup closes, op_a is pc + op_b.  A row with
\* is_auipc = 0 sends the tuple with multiplicity 0.
C25_Auipc ==
    \A j \in 1..Len(ops) :
        /\ ops[j].selectors["is_auipc"] = 1 =>
               /\ Reduce(ops[j].auipc_pc) = ops[j].pc
               /\ WordValue(ops[j].auipc_pc) = ops[j].pc
               /\ auipc_send_alu_mult(ops[j]) = 1
               /\ auipc_send_alu_values(ops[j]) =
                      <<"ADD", ops[j].op_a_val, ops[j].auipc_pc, ops[j].op_b_val,
                        ops[j].shard, ops[j].channel, ops[j].auipc_nonce>>
               /\ OpAluBalanced(ops) =>
                      WordValue(ops[j].op_a_val) = ops[j].pc + WordValue(ops[j].op_b_val)
        /\ ops[j].selectors["is_auipc"] = 0 => auipc_send_alu_mult(ops[j]) = 0

\* An Opcode-Specific table with the row of a real AUIPC at pc = 4 with op_b = 3,
\* whose ALU lookup closes: op_a is 7.
C25_Witness ==
    /\ Accepted
    /\ OpAluBalanced(ops)
    /\ Len(ops) = 1
    /\ ops[1].is_real = 1
    /\ ops[1].selectors["is_auipc"] = 1
    /\ ops[1].pc = 4
    /\ ops[1].op_b_val = <<3, 0, 0, 0>>
    /\ ops[1].op_a_val = <<7, 0, 0, 0>>

\* CpuOpcodeSpecificChip::eval accepts a row with is_auipc = 0 whose pc word does not
\* reduce to its pc, and an AUIPC row whose op_a is not pc + op_b: the ALU lookup of
\* the latter does not close.
C25_PcWordUnconstrained ==
    /\ Len(ops) = 1
    /\ \/ /\ ops[1].selectors["is_auipc"] = 0
          /\ Reduce(ops[1].auipc_pc) # ops[1].pc
       \/ /\ ops[1].selectors["is_auipc"] = 1
          /\ WordValue(ops[1].op_a_val) # ops[1].pc + WordValue(ops[1].op_b_val)
          /\ ~OpAluBalanced(ops)

\* C30: in every accepted CPU table, on every transition from a real row to a real
\* row on which local.clk < 2^24 and the extra-cycle count is below 2^8, the sum
\* local.clk + 4 + extra cycles stays below the modulus of the field, so that
\* next.clk is that sum as an integer and is greater than local.clk.
C30_ClkNoOverflow ==
    cpuClosed =>
        \A i \in Rows :
            (/\ i < Len(cpu)
             /\ cpu[i].is_real = 1
             /\ cpu[i + 1].is_real = 1
             /\ cpu[i].clk < 16777216
             /\ ExtraCyclesOf(cpu[i]) < 256)
            => /\ cpu[i].clk + 4 + ExtraCyclesOf(cpu[i]) < P
               /\ cpu[i + 1].clk = cpu[i].clk + 4 + ExtraCyclesOf(cpu[i])
               /\ cpu[i + 1].clk > cpu[i].clk

\* An accepted table with a transition at the top of both ranges: from a real row of
\* clk 2^24 - 1 with 255 extra cycles to a real row of clk 2^24 + 258.
C30_Witness ==
    /\ cpuClosed
    /\ Len(cpu) = 3
    /\ cpu[2].is_real = 1
    /\ cpu[2].clk = 16777215
    /\ ExtraCyclesOf(cpu[2]) = 255
    /\ cpu[3].is_real = 1
    /\ cpu[3].clk = 16777215 + 4 + 255

\* Without the bound on the extra cycles the sum wraps round the modulus: an accepted
\* table with a real row whose successor is real and carries the same clk.
C30_WrapReached ==
    /\ cpuClosed
    /\ Len(cpu) >= 2
    /\ cpu[1].is_real = 1
    /\ cpu[2].is_real = 1
    /\ ExtraCyclesOf(cpu[1]) = P - 4
    /\ cpu[2].clk = cpu[1].clk

---------------------------------------------------------------------------
(* Properties of the Memory Local tables.                                  *)

\* The tuple (shard, clk, addr, value) of a Memory Local row.
MemoryTuple(row) == <<row.shard, row.clk, row.addr>> \o row.value

\* The interaction of the given direction and scope a row emits.
InteractionOf(row, dir, scope) ==
    [dir |-> dir, scope |-> scope, kind |-> "Memory", values |-> MemoryTuple(row),
     mult |-> row.is_real]

\* C17: on every row of every Memory Local table, MemoryLocalChip::eval in
\* Initialize mode sends the tuple (shard, clk, addr, value) of the row in the
\* Global scope and receives it in the Local scope, and in Finalize mode receives it
\* in the Global scope and sends it in the Local scope; both interactions carry the
\* same values, the multiplicity is_real and the kind Memory.
C17_ScopesOfModes ==
    \A k \in 1..Len(shards) :
        /\ \A i \in 1..Len(shards[k].init) :
               MemoryLocalInteractions("Initialize", shards[k].init[i])
                   = <<InteractionOf(shards[k].init[i], "send", "Global"),
                       InteractionOf(shards[k].init[i], "receive", "Local")>>
        /\ \A i \in 1..Len(shards[k].fin) :
               MemoryLocalInteractions("Finalize", shards[k].fin[i])
                   = <<InteractionOf(shards[k].fin[i], "receive", "Global"),
                       InteractionOf(shards[k].fin[i], "send", "Local")>>

\* An execution of two shards that both touch an address: both tables of both
\* shards have a real row.
C17_Witness ==
    /\ done
    /\ Len(shards) = 2
    /\ shards[1].init[1].is_real = 1
    /\ shards[1].fin[1].is_real = 1
    /\ shards[2].init[1].is_real = 1
    /\ shards[2].fin[1].is_real = 1

\* The real rows of a table that carry the address.
RealRowsOf(rows, addr) ==
    {i \in 1..Len(rows) : rows[i].is_real # 0 /\ rows[i].addr = addr}

\* The shard of the list has an event for the address.
TouchedIn(ss, k, addr) ==
    \E i \in 1..Len(ss[k].record.local_memory_access) :
        ss[k].record.local_memory_access[i].addr = addr

\* The final rows of every shard are the initial rows of the next, address by
\* address, and an address whose last access in a shard wrote 300 at clk c0 has
\* (that shard, c0, 300) for initial row in the next shard that touches it.
ShardsChained ==
    \A k \in 1..(Len(shards) - 1) :
        \A a \in 1..Len(Addrs) :
            /\ \A i \in RealRowsOf(shards[k].fin, Addrs[a]) :
                   \A j \in RealRowsOf(shards[k + 1].init, Addrs[a]) :
                       MemoryTuple(shards[k].fin[i]) = MemoryTuple(shards[k + 1].init[j])
            /\ \A e \in 1..Len(shards[k].record.local_memory_access) :
                   LET ev == shards[k].record.local_memory_access[e]
                   IN  (ev.addr = Addrs[a] /\ ev.final_mem_access.value = 300
                           /\ TouchedIn(shards, k + 1, Addrs[a])) =>
                          \A j \in RealRowsOf(shards[k + 1].init, Addrs[a]) :
                              MemoryTuple(shards[k + 1].init[j])
                                  = <<k - 1, ev.final_mem_access.clk, Addrs[a]>>
                                       \o ToWord(300)

C18_MismatchRejected ==
    /\ done
    /\ tampered
    /\ Len(shards) = 2
    /\ shards[1].fin[1].is_real = 1
    /\ shards[2].init[1].is_real = 1
    /\ shards[2].init[1].addr = shards[1].fin[1].addr
    /\ shards[2].init[1].value # shards[1].fin[1].value
    /\ ~GlobalBalanced(shards, rt.memory)

\* The tables generate_trace builds of the records of an execution balance in the
\* Global scope.
GeneratedTablesBalance ==
    (done /\ ~tampered) => GlobalBalanced(shards, rt.memory)

\* C19 as claimed: for every address touched in a shard, the clk of the initial row
\* is at most the clk of the final row, also when the initial record was produced
\* by an access in an earlier shard.
C19_InitialClkAtMostFinalClk ==
    \A k \in 1..Len(shards) :
        \A i \in 1..Len(shards[k].record.local_memory_access) :
            generate_trace("Initialize", shards[k].record)[i].clk
                <= generate_trace("Finalize", shards[k].record)[i].clk

\* C19, amended: for every address touched in a shard, the final row carries the
\* shard itself, and the initial row precedes it in the order of (shard, clk):
\* its shard is earlier, or is the same shard and its clk is at most the final
\* clk.  The clk starts again at 0 in every shard, so that the clk of an initial
\* record of an earlier shard may exceed the final clk.
C19_InitialBeforeFinal ==
    \A k \in 1..Len(shards) :
        \A i \in 1..Len(shards[k].record.local_memory_access) :
            LET initial == generate_trace("Initialize", shards[k].record)[i]
                final == generate_trace("Finalize", shards[k].record)[i]
            IN  /\ final.shard = k - 1
                /\ \/ initial.shard < final.shard
                   \/ initial.shard = final.shard /\ initial.clk <= final.clk

\* A shard whose initial row for an address comes from an earlier shard and carries
\* a greater clk than its final row, and a shard whose initial row is the record of
\* the untouched address.
C19_Witness ==
    /\ done
    /\ Len(shards) = 2
    /\ \E i \in 1..Len(shards[2].record.local_memory_access) :
          LET initial == generate_trace("Initialize", shards[2].record)[i]
              final == generate_trace("Finalize", shards[2].record)[i]
          IN  /\ initial.is_real = 1
              /\ initial.shard = 0
              /\ final.shard = 1
              /\ initial.clk > final.clk
    /\ generate_trace("Initialize", shards[1].record)[1].clk = 0
    /\ generate_trace("Finalize", shards[1].record)[1].clk > 0

\* The multiplicities with which the rows of the tables of the finished shards
\* contribute to the Memory lookups.
TableMultiplicities ==
    UNION {{MemoryLocalInteractions("Initialize", shards[k].init[i])[n].mult :
                i \in 1..Len(shards[k].init), n \in 1..2}
           \cup {MemoryLocalInteractions("Finalize", shards[k].fin[i])[n].mult :
                i \in 1..Len(shards[k].fin), n \in 1..2} :
           k \in 1..Len(shards)}

\* C20: every row of every Memory Local table, each of which satisfies the
\* constraints of MemoryLocalChip::eval, contributes to the Global and to the Local
\* Memory lookup with multiplicity 0 or 1.
C20_MultiplicityBoolean ==
    TableMultiplicities \subseteq {0, 1}

\* What holds of C20: the tables generate_trace builds contribute with multiplicity
\* 1 on the rows of events and 0 on the rows of the padding.
GeneratedMultiplicityBoolean ==
    ~tampered => TableMultiplicities \subseteq {0, 1}

\* A table with a row of is_real = 2 that satisfies MemoryLocalChip::eval.
MultiplicityTwoReached ==
    /\ tampered
    /\ \E k \in 1..Len(shards) :
          /\ shards[k].init[1].is_real = 2
          /\ MemoryLocalEval(shards[k].init[1])

\* C22: for the records of a correct execution, of two shards in particular, the
\* Memory interactions cancel: in the Local scope of every shard the two Memory Local
\* tables and the memory accesses of the shard send and receive every tuple equally
\* often, so that every access of an address between its initial and its final
\* record is matched; in the Global scope, over all shards, every send is matched by
\* a receive of the same tuple.
C22_MemoryInteractionsCancel ==
    (done /\ ~tampered) =>
        /\ \A k \in 1..Len(shards) : LocalBalanced(shards[k])
        /\ GlobalBalanced(shards, rt.memory)

\* An execution of two shards: the first writes an address and reads it back, the
\* second reads it again.
C22_Witness ==
    /\ done
    /\ ~tampered
    /\ Len(shards) = 2
    /\ Len(shards[1].record.cpu_events) = 2
    /\ shards[1].record.cpu_events[1].current.value = 300
    /\ shards[1].record.cpu_events[2].addr = shards[1].record.cpu_events[1].addr
    /\ Len(shards[2].record.cpu_events) = 1
    /\ shards[2].record.cpu_events[1].addr = shards[1].record.cpu_events[1].addr
    /\ LocalBalanced(shards[1])
    /\ LocalBalanced(shards[2])

\* A changed row leaves the Local scope of its shard unbalanced.
C22_TamperedUnbalanced ==
    /\ tampered
    /\ \E k \in 1..Len(shards) : ~LocalBalanced(shards[k])

---------------------------------------------------------------------------
(* Properties of MemoryLocalChip::included and generate_trace.             *)

\* The record has a local memory event inside one of its keccak permute events.
HasKeccakLocalEvent(r) ==
    \E e \in 1..Len(r.keccak_permute_events) :
        r.keccak_permute_events[e].local_mem_access # <<>>

\* C21: in both modes, MemoryLocalChip::included returns true when the record has an
\* entry in local_memory_access or a local memory access inside one of its keccak
\* permute events, and false when it has neither.
C21_Included ==
    \A kind \in MemoryChipType :
        incl[kind] # <<>> =>
            incl[kind][1] = (rec.local_memory_access # <<>> \/ HasKeccakLocalEvent(rec))

\* A record with no event of its own and two keccak permute events, of which only
\* the second accessed memory: both chips are included.
C21_Witness ==
    /\ rec.local_memory_access = <<>>
    /\ Len(rec.keccak_permute_events) = 2
    /\ rec.keccak_permute_events[1].local_mem_access = <<>>
    /\ rec.keccak_permute_events[2].local_mem_access # <<>>
    /\ incl["Initialize"] = <<TRUE>>
    /\ incl["Finalize"] = <<TRUE>>

\* A record with no event of its own and a keccak permute event that accessed no
\* memory: neither chip is included.
C21_NeitherReached ==
    /\ rec.local_memory_access = <<>>
    /\ Len(rec.keccak_permute_events) = 1
    /\ ~HasKeccakLocalEvent(rec)
    /\ incl["Initialize"] = <<FALSE>>
    /\ incl["Finalize"] = <<FALSE>>

RECURSIVE NumKeccakLocalEvents(_, _)
\* The local memory events inside keccak permute events 1 .. n of a list.
NumKeccakLocalEvents(ks, n) ==
    IF n = 0 THEN 0
    ELSE NumKeccakLocalEvents(ks, n - 1) + Len(ks[n].local_mem_access)

\* The local memory events of a record.
NumEvents(r) ==
    Len(r.local_memory_access)
        + NumKeccakLocalEvents(r.keccak_permute_events, Len(r.keccak_permute_events))

\* The i-th local memory event of a record: those of local_memory_access first, then
\* event j of keccak permute event k after all events of the keccak permute events
\* before k.
EventAt(r, i) ==
    IF i <= Len(r.local_memory_access) THEN r.local_memory_access[i]
    ELSE LET ks == r.keccak_permute_events
             at == CHOOSE kj \in (1..Len(ks)) \X (1..MaxKeccakAccesses + 1) :
                       /\ kj[2] <= Len(ks[kj[1]].local_mem_access)
                       /\ Len(r.local_memory_access)
                              + NumKeccakLocalEvents(ks, kj[1] - 1) + kj[2] = i
         IN  ks[at[1]].local_mem_access[at[2]]

\* The access of an event a chip of the given mode records.
AccessOf(kind, e) ==
    IF kind = "Initialize" THEN e.initial_mem_access ELSE e.final_mem_access

\* A height that is a power of two.
IsPowerOfTwo(h) == \E k \in 0..8 : h = 2 ^ k

\* C27: the trace generate_trace returns has a power-of-two height; its first rows
\* are one row with is_real = 1 per local memory event, those of local_memory_access
\* in order and then those of the keccak permute events in order, each with the
\* event's addr and the shard, the clk and the four bytes of the value of the event's
\* initial access in Initialize mode and of its final access in Finalize mode; every
\* row after them is all-zero.
C27_GenerateTrace ==
    \A kind \in MemoryChipType :
        trace[kind] # <<>> =>
            LET t == trace[kind][1]
            IN  /\ IsPowerOfTwo(Len(t))
                /\ Len(t) >= NumEvents(rec)
                /\ \A i \in 1..NumEvents(rec) :
                       LET e == EventAt(rec, i)
                       IN  /\ t[i].is_real = 1
                           /\ t[i].addr = e.addr
                           /\ t[i].shard = AccessOf(kind, e).shard
                           /\ t[i].clk = AccessOf(kind, e).clk
                           /\ \A b \in 1..4 : t[i].value[b] \in 0..255
                           /\ t[i].value[1] + 256 * t[i].value[2] + 65536 * t[i].value[3]
                                  + 16777216 * t[i].value[4] = AccessOf(kind, e).value
                /\ \A i \in (NumEvents(rec) + 1)..Len(t) :
                       t[i] = [shard |-> 0, clk |-> 0, addr |-> 0, value |-> <<0, 0, 0, 0>>,
                               is_real |-> 0]

\* Both traces of a record with an event of its own and two keccak permute events of
\* one local access each, on different addresses: three real rows and a padding row.
C27_Witness ==
    /\ Len(rec.local_memory_access) = 1
    /\ Len(rec.keccak_permute_events) = 2
    /\ Len(rec.keccak_permute_events[1].local_mem_access) = 1
    /\ Len(rec.keccak_permute_events[2].local_mem_access) = 1
    /\ rec.keccak_permute_events[1].local_mem_access[1].addr
           # rec.keccak_permute_events[2].local_mem_access[1].addr
    /\ trace["Initialize"] # <<>>
    /\ trace["Finalize"] # <<>>
    /\ Len(trace["Initialize"][1]) = 4
    /\ trace["Finalize"][1][3].is_real = 1
    /\ trace["Finalize"][1][4].is_real = 0

\* The rows of a trace with is_real = 1.
RealRows(t) == {i \in 1..Len(t) : t[i].is_real = 1}

\* C28: the traces the Initialize and the Finalize chip generate of one record have
\* the same height and the same number of real rows, and row i of the one carries
\* the addr and the is_real of row i of the other: the shard, the clk and the value
\* are the only columns in which they differ.
C28_SameShape ==
    (trace["Initialize"] # <<>> /\ trace["Finalize"] # <<>>) =>
        LET ti == trace["Initialize"][1]
            tf == trace["Finalize"][1]
        IN  /\ Len(ti) = Len(tf)
            /\ Cardinality(RealRows(ti)) = Cardinality(RealRows(tf))
            /\ \A i \in 1..Len(ti) :
                   /\ ti[i].addr = tf[i].addr
                   /\ ti[i].is_real = tf[i].is_real
                   /\ [ti[i] EXCEPT !.shard = 0, !.clk = 0, !.value = <<0, 0, 0, 0>>]
                          = [tf[i] EXCEPT !.shard = 0, !.clk = 0, !.value = <<0, 0, 0, 0>>]

\* Both traces of a record with an event of its own and a keccak permute event with
\* a local access: the rows of the record's event differ in shard, clk and value, and
\* the traces end in padding rows.
C28_Witness ==
    /\ trace["Initialize"] # <<>>
    /\ trace["Finalize"] # <<>>
    /\ Len(rec.local_memory_access) = 1
    /\ HasKeccakLocalEvent(rec)
    /\ trace["Initialize"][1][1].shard # trace["Finalize"][1][1].shard
    /\ trace["Initialize"][1][1].clk # trace["Finalize"][1][1].clk
    /\ trace["Initialize"][1][1].value # trace["Finalize"][1][1].value
    /\ trace["Initialize"][1][2].is_real = 1
    /\ trace["Initialize"][1][Len(trace["Initialize"][1])].is_real = 0

\* C29: for every record, included returns true exactly when the trace generate_trace
\* builds of the record has a row with is_real = 1, whichever the modes of the two
\* chips: the real rows of the trace are as many as the events included looks for.
C29_IncludedIffRealRow ==
    \A k1, k2 \in MemoryChipType :
        (incl[k1] # <<>> /\ trace[k2] # <<>>) =>
            /\ incl[k1][1] = (RealRows(trace[k2][1]) # {})
            /\ Cardinality(RealRows(trace[k2][1])) = NumEvents(rec)
            /\ incl[k1][1] = (NumEvents(rec) > 0)

\* A record whose only local memory event is inside the second of two keccak permute
\* events: both chips are included and both traces have one real row.
C29_Witness ==
    /\ rec.local_memory_access = <<>>
    /\ Len(rec.keccak_permute_events) = 2
    /\ rec.keccak_permute_events[1].local_mem_access = <<>>
    /\ \A k \in MemoryChipType :
          /\ incl[k] = <<TRUE>>
          /\ trace[k] # <<>>
          /\ RealRows(trace[k][1]) = {1}

\* A record with keccak permute events that accessed no memory: neither chip is
\* included and both traces are all padding.
C29_EmptyReached ==
    /\ rec.local_memory_access = <<>>
    /\ Len(rec.keccak_permute_events) = 2
    /\ \A k \in MemoryChipType :
          /\ incl[k] = <<FALSE>>
          /\ trace[k] # <<>>
          /\ RealRows(trace[k][1]) = {}

---------------------------------------------------------------------------
(* Properties of the tables under a permutation of their rows.             *)

\* The Memory Local tables of the closed shards, with their modes.
MemoryTables ==
    {<<"Initialize", shards[k].init>> : k \in 1..Len(shards)}
        \cup {<<"Finalize", shards[k].fin>> : k \in 1..Len(shards)}

\* C26: every permutation of the rows of an Opcode-Specific table that satisfies
\* CpuOpcodeSpecificChip::eval satisfies it and emits the same multiset of
\* interactions, and so does every permutation of the rows of a Memory Local table
\* that satisfies MemoryLocalChip::eval.
C26_RowPermutation ==
    /\ OpcodeSpecificTableEval(ops) =>
           \A p \in Permutations(1..Len(ops)) :
               /\ OpcodeSpecificTableEval(Permute(ops, p))
               /\ BagOf(OpcodeSpecificTableInteractions(Permute(ops, p), Len(ops)))
                      = BagOf(OpcodeSpecificTableInteractions(ops, Len(ops)))
    /\ \A t \in MemoryTables :
           MemoryLocalTableEval(t[2]) =>
               \A p \in Permutations(1..Len(t[2])) :
                   /\ MemoryLocalTableEval(Permute(t[2], p))
                   /\ BagOf(TableInteractions(t[1], Permute(t[2], p), Len(t[2])))
                          = BagOf(TableInteractions(t[1], t[2], Len(t[2])))

\* A Memory Local table of a real row and a padding row: the order of its rows that
\* exchanges the two is another table, with another list of interactions.
C26_Witness ==
    \E t \in MemoryTables :
        /\ Len(t[2]) = 2
        /\ t[2][1].is_real = 1
        /\ t[2][2].is_real = 0
        /\ \E p \in Permutations(1..Len(t[2])) :
              /\ Permute(t[2], p)[1].is_real = 0
              /\ TableInteractions(t[1], Permute(t[2], p), Len(t[2]))
                     # TableInteractions(t[1], t[2], Len(t[2]))

\* An Opcode-Specific table of a real row and a padding row that satisfies
\* CpuOpcodeSpecificChip::eval: the table with the two rows exchanged is another
\* table.
C26_OpsPermuted ==
    /\ Len(ops) = 2
    /\ ops[1].is_real = 1
    /\ ops[2].is_real = 0
    /\ OpcodeSpecificTableEval(ops)
    /\ Permute(ops, <<2, 1>>) # ops

\* The CPU table is not such a table: an accepted CPU table has an order of its
\* rows that CpuChip::eval rejects.
C26_CpuRowsAligned ==
    /\ cpuClosed
    /\ CpuTableEval(cpu, pv)
    /\ \E p \in Permutations(1..Len(cpu)) : ~CpuTableEval(Permute(cpu, p), pv)

---------------------------------------------------------------------------
(* Properties of LocalProver::prove_with_options.                          *)

\* The call of prove_with_options has returned a proof or an error.
Returned == outcome \in {"proof", "error"}

\* C31: a call of LocalProver::prove_with_options, and thus of
\* LocalProofRequest::run, eventually returns a proof or an error, for every proving
\* key, input and options.
C31_EventuallyReturns == (stack # <<>>) ~> Returned

\* What holds instead: no call ever returns, and every frame of run is followed by a
\* frame of prove_with_options with the key and the input of the first call, until
\* the stack has no room left.
NeverReturns ==
    /\ ~Returned
    /\ \A i \in 1..Len(stack) :
          /\ stack[i].fn = (IF i % 2 = 1 THEN "prove_with_options" ELSE "run")
          /\ i < Len(stack) /\ stack[i].fn = "run" =>
                 /\ stack[i + 1].pk = stack[1].pk
                 /\ stack[i + 1].stdin = stack[1].stdin

\* The process is aborted with prove_with_options on the stack more than once.
AbortReached ==
    /\ outcome = "abort"
    /\ Cardinality({i \in 1..Len(stack) : stack[i].fn = "prove_with_options"}) > 1

\* The calls of prove_with_options on the stack that have built and run their
\* request: the frame of the request follows the frame of the call.
BuiltRequests == {i \in 1..(Len(stack) - 1) : stack[i].fn = "prove_with_options"}

\* C32: the proof mode and the timeout of the ProofOpts passed to
\* LocalProver::prove_with_options are the mode and the timeout of the
\* LocalProofRequest that it builds and runs.
C32_OptsPassedOn ==
    \A i \in BuiltRequests :
        /\ stack[i + 1].request.mode = stack[i].opts.mode
        /\ stack[i + 1].request.timeout = stack[i].opts.timeout

\* What holds of C32: the timeout of the request is that of the options, and so are
\* its key and its input those of the call; its mode is Mode::default(), whatever
\* the mode of the options.
TimeoutPassedOn ==
    \A i \in BuiltRequests :
        /\ stack[i + 1].request.timeout = stack[i].opts.timeout
        /\ stack[i + 1].request.pk = stack[i].pk
        /\ stack[i + 1].request.stdin = stack[i].stdin
        /\ stack[i + 1].request.mode = Mode_default

\* A call with the mode Core and the timeout 2 whose request has the mode Groth16
\* and the timeout 2.
ModeLostReached ==
    /\ Len(stack) >= 2
    /\ stack[1].opts.mode = "Core"
    /\ stack[1].opts.timeout = 2
    /\ stack[2].request.mode = "Groth16"
    /\ stack[2].request.timeout = 2

---------------------------------------------------------------------------
(* Properties of download_file.                                            *)

\* The errors download_file returns.
DownloadErrors ==
    {"Failed to GET", "Failed to get content length", "Error while downloading file",
     "Error while writing to file"}

\* In every state of a download: the position is at most the announced length; the
\* position has been advanced for no chunk that has not been written, and in the
\* step that advances it the chunk has been written; an error has ended the call.
DownloadInvariant ==
    /\ dl.position <= dl.total_size
    /\ dl.downloaded <= dl.total_size
    /\ dl.advances <= dl.writes
    /\ dl.pc = "advance" => dl.writes = dl.advances + 1
    /\ dl.pc \in {"next", "write"} => dl.writes = dl.advances
    /\ dl.result \in DownloadErrors => dl.pc = "returned"

\* In every step of a download: the position does not decrease; the file is written
\* only by the write of a chunk just received, in a call no error has ended; and a
\* step that fails ends the call.
DownloadStep ==
    /\ dl'.position >= dl.position
    /\ dl'.written # dl.written => dl.pc = "write" /\ dl.result = "none"
    /\ dl.pc = "returned" => dl' = dl
    /\ (dl'.result \in DownloadErrors /\ dl.result = "none") =>
           /\ dl'.pc = "returned"
           /\ dl'.writes = dl.writes
           /\ dl'.position = dl.position

\* C33: during download_file the reported position never decreases and never exceeds
\* the content length the server announced, whatever the lengths of the chunks; every
\* chunk is written to the file before the position is advanced for it; and the first
\* failed chunk or failed write ends the download with an error and no further write.
\* (The sums of the model are far below 2^64, the width of downloaded.)
C33_DownloadProgress == []DownloadInvariant /\ [][DownloadStep]_vars

\* A download of announced length 3 that has received and written two chunks of
\* length 2: the position is 3, four bytes are in the file.
C33_Witness ==
    /\ dl.pc = "next"
    /\ dl.total_size = 3
    /\ dl.written = 4
    /\ dl.writes = 2
    /\ dl.advances = 2
    /\ dl.position = 3

\* A download whose second write fails after a part of the chunk: the call has
\* returned the error, the position is that of the first chunk.
FailedWriteReached ==
    /\ dl.pc = "returned"
    /\ dl.result = "Error while writing to file"
    /\ dl.writes = 1
    /\ dl.written = 3
    /\ dl.position = 2

====
